---- MODULE Spec2Model ----
(***************************************************************************)
(* Preflight validation/remediation (src/validate/preflight.py) and the    *)
(* renderer (src/render/renderer.py) of ppt-gen.                           *)
(*                                                                         *)
(* Texts are TLA+ strings, handled character by character the way the      *)
(* Python str methods handle them.                                         *)
(***************************************************************************)
EXTENDS Integers, Sequences, FiniteSets, TLC

VARIABLES
    catalog,          \* layout_id -> catalog entry, as _load_layout_catalog returns it
    heap,             \* the list objects: reference -> items
    deck_in,          \* the DeckIR handed to the first validate_and_remediate call
    runs,             \* the (deck, report) returned by each call so far; call n + 1
                      \* is made on the deck call n returned
    deck_b,           \* IndepSpec: a second input deck
    runs_b,           \* IndepSpec: what the call on deck_b returned
    t_text, t_max, t_res,   \* TruncSpec: _truncate_text(t_text, t_max) = t_res
    template,         \* the template file: its masters' layouts and example slides
    icon_index,       \* icon_id -> filename, as _load_icon_index returns it
    fs_files,         \* the asset files that exist
    output_file,      \* what is at output_path: no file, or a saved document
    saves,            \* how many times prs.save has run
    r_pc,             \* where Renderer.render stands: idle, slides, returned, raised
    r_deck,           \* its deck argument
    r_done,           \* how many slides the loop has completed
    prs,              \* the slides of the in-memory presentation
    render_map,       \* the entries of the RenderMap being built
    r_error,          \* the message of the exception that ended render, or None
    r_result,         \* what render returned: nothing, or a RenderMap
    layouts,          \* the "layouts" list of the catalog file, as json.load reads it
    d_errors,         \* what validate_template_catalog returned, once it has run
    c_cmd,            \* the CLI command being executed: none, render, smoke
    c_pc,             \* where the command stands
    c_trace,          \* what the command has done so far, in order: stages begun and
                      \* ended, files written into the run directory, log events
    c_rc,             \* <<>> while the command runs, then <<its return code>>
    deckir_exists     \* whether there is a file at the DeckIR path

pfVars == <<catalog, heap, deck_in, runs, deck_b, runs_b>>
txVars == <<t_text, t_max, t_res>>
envVars == <<template, icon_index, fs_files>>
rnVars == <<output_file, saves, r_pc, r_deck, r_done, prs, render_map, r_error, r_result>>
drVars == <<layouts, d_errors>>
cliVars == <<c_cmd, c_pc, c_trace, c_rc, deckir_exists>>
vars == <<catalog, heap, deck_in, runs, deck_b, runs_b, t_text, t_max, t_res,
          template, icon_index, fs_files,
          output_file, saves, r_pc, r_deck, r_done, prs, render_map, r_error, r_result,
          layouts, d_errors, c_cmd, c_pc, c_trace, c_rc, deckir_exists>>

None == "<None>"

(***************************************************************************)
(* Bounds                                                                  *)
(***************************************************************************)
MaxTextLen == 8      \* longest text handed to _truncate_text in TruncSpec
MaxBudget == 8       \* largest character budget in TruncSpec
WideBudget == 13     \* one more budget in TruncSpec, for the texts of WideTexts
MaxBulletsIn == 3    \* most bullets in a list field of an input slide
MaxSlides == 2       \* most slides in an input deck
MaxRuns == 2         \* validate_and_remediate calls in a behaviour
MaxRenderSlides == 3  \* most slides in a deck handed to Renderer.render
MaxCatalogEntries == 2   \* most entries in a catalog of DriftSpec
MaxCliSlides == 2     \* most slides in the DeckIR file of CliSpec

(***************************************************************************)
(* Python str primitives                                                   *)
(***************************************************************************)
Min(a, b) == IF a <= b THEN a ELSE b
Max(a, b) == IF a >= b THEN a ELSE b

\* the character at 1-based position i
Ch(s, i) == SubSeq(s, i, i)

\* s[:n] for n >= 0
Prefix(s, n) == SubSeq(s, 1, Min(n, Len(s)))

\* s[n:] for n >= 0
Suffix(s, n) == SubSeq(s, n + 1, Len(s))

IsSpace(c) == c \in {" ", "\n"}

\* str.rfind(" "): 0-based index of the last blank, -1 when there is none
RECURSIVE RFindFrom(_, _)
RFindFrom(s, i) ==
    IF i = 0 THEN -1
    ELSE IF Ch(s, i) = " " THEN i - 1
    ELSE RFindFrom(s, i - 1)
RFindSpace(s) == RFindFrom(s, Len(s))

\* str.rstrip()
RECURSIVE RStrip(_)
RStrip(s) ==
    IF Len(s) > 0 /\ IsSpace(Ch(s, Len(s))) THEN RStrip(SubSeq(s, 1, Len(s) - 1))
    ELSE s

\* str.endswith("...")
EndsWithEllipsis(s) == Len(s) >= 3 /\ SubSeq(s, Len(s) - 2, Len(s)) = "..."

(***************************************************************************)
(* _truncate_text                                                          *)
(***************************************************************************)
\* last_space > (max_chars - 3) * 0.7, in tenths.  For every max_chars below
\* 40 the comparison of the integer last_space with the float product agrees
\* with the exact rational one (10 * 0.7 is the float 7.0).
KeepsWordBoundary(last_space, max_chars) == 10 * last_space > 7 * (max_chars - 3)

\* the ellipsis added to max_chars characters: text[:max_chars] + "..."
_truncate_text_no_room(text, max_chars) ==
    IF max_chars <= 0 THEN ""
    ELSE IF Len(text) <= max_chars THEN text
    ELSE IF max_chars <= 3 THEN Prefix(text, max_chars)
    ELSE LET truncated  == Prefix(text, max_chars)
             last_space == RFindSpace(truncated)
             cut        == IF KeepsWordBoundary(last_space, max_chars)
                           THEN Prefix(truncated, last_space)
                           ELSE truncated
         IN  RStrip(cut) \o "..."

\* the blank is kept when it is not before 70% of max_chars
_truncate_text_of_budget(text, max_chars) ==
    IF max_chars <= 0 THEN ""
    ELSE IF Len(text) <= max_chars THEN text
    ELSE IF max_chars <= 3 THEN Prefix(text, max_chars)
    ELSE LET truncated  == Prefix(text, max_chars - 3)
             last_space == RFindSpace(truncated)
             cut        == IF 10 * last_space >= 7 * max_chars
                           THEN Prefix(truncated, last_space)
                           ELSE truncated
         IN  RStrip(cut) \o "..."

_truncate_text(text, max_chars) ==
    IF max_chars <= 0 THEN ""
    ELSE IF Len(text) <= max_chars THEN text
    ELSE IF max_chars <= 3 THEN Prefix(text, max_chars)
    ELSE LET truncated  == Prefix(text, max_chars - 3)
             last_space == RFindSpace(truncated)
             cut        == IF KeepsWordBoundary(last_space, max_chars)
                           THEN Prefix(truncated, last_space)
                           ELSE truncated
         IN  RStrip(cut) \o "..."

(***************************************************************************)
(* Field values.  A FieldValue is str or List[str]; a list is a mutable    *)
(* Python object, so a list value is a reference into the heap and the     *)
(* heap maps the reference to the list's items.                            *)
(***************************************************************************)
Str(s) == [kind |-> "str", text |-> s]
ListRef(a) == [kind |-> "list", ref |-> a]

IsList(value) == value.kind = "list"
IsStr(value) == value.kind = "str"

\* the items of a list value
Items(value, h) == h[value.ref]

\* a new list object holding items: the heap after the allocation
Alloc(h, items) == Append(h, items)
\* ... and its reference
NewRef(h) == Len(h) + 1

\* the value with every reference replaced by what it refers to
DerefValue(value, h) ==
    IF IsList(value) THEN [kind |-> "list", items |-> Items(value, h)] ELSE value

RECURSIVE SumLen(_)
SumLen(items) == IF items = <<>> THEN 0 ELSE Len(Head(items)) + SumLen(Tail(items))

\* str.split(): the maximal runs of non-blank characters
RECURSIVE SplitFrom(_, _, _, _)
SplitFrom(s, i, cur, acc) ==
    IF i > Len(s) THEN (IF cur = "" THEN acc ELSE Append(acc, cur))
    ELSE IF IsSpace(Ch(s, i))
         THEN SplitFrom(s, i + 1, "", IF cur = "" THEN acc ELSE Append(acc, cur))
         ELSE SplitFrom(s, i + 1, cur \o Ch(s, i), acc)
Split(s) == SplitFrom(s, 1, "", <<>>)

\* sep.join(parts)
RECURSIVE Join(_, _)
Join(parts, sep) ==
    IF parts = <<>> THEN ""
    ELSE IF Len(parts) = 1 THEN parts[1]
    ELSE parts[1] \o sep \o Join(Tail(parts), sep)

\* items[:n] and items[n:] for n >= 0
Take(items, n) == SubSeq(items, 1, Min(n, Len(items)))
Drop(items, n) == SubSeq(items, n + 1, Len(items))

RECURSIVE MaxWords(_)
MaxWords(items) ==
    IF items = <<>> THEN 0 ELSE Max(Len(Split(Head(items))), MaxWords(Tail(items)))

_count_chars(value, h) ==
    IF IsStr(value) THEN Len(value.text) ELSE SumLen(Items(value, h))

_count_bullets(value, h) ==
    IF IsList(value) THEN Len(Items(value, h))
    ELSE IF Split(value.text) # <<>> THEN 1
    ELSE 0

_max_words_in_bullet(value, h) ==
    IF IsStr(value) THEN Len(Split(value.text)) ELSE MaxWords(Items(value, h))

FallbackCharsPerLine == 50

\* the quotient rounded down
_estimate_lines_floor(value, avg_chars_per_line, h) ==
    LET avg == IF avg_chars_per_line <= 0 THEN FallbackCharsPerLine ELSE avg_chars_per_line
        total_chars == _count_chars(value, h)
    IN  IF total_chars > 0 THEN total_chars \div avg ELSE 0

_estimate_lines(value, avg_chars_per_line, h) ==
    LET avg == IF avg_chars_per_line <= 0 THEN FallbackCharsPerLine ELSE avg_chars_per_line
        total_chars == _count_chars(value, h)
    IN  IF total_chars > 0 THEN (total_chars + avg - 1) \div avg ELSE 0

_shorten_bullet(bullet, max_words) ==
    LET words == Split(bullet)
    IN  IF Len(words) <= max_words THEN bullet
        ELSE Join(Take(words, max_words), " ") \o "..."

(***************************************************************************)
(* Slides and layout constraints.  slide.fields is a dict: a sequence of   *)
(* (key, value) entries in insertion order, the keys distinct.             *)
(***************************************************************************)
HasField(fields, k) == \E i \in 1..Len(fields) : fields[i].key = k
FieldIndex(fields, k) == CHOOSE i \in 1..Len(fields) : fields[i].key = k
FieldOf(fields, k) == fields[FieldIndex(fields, k)].value
SetField(fields, k, value) == [fields EXCEPT ![FieldIndex(fields, k)].value = value]

StartsWith(s, p) == Len(s) >= Len(p) /\ SubSeq(s, 1, Len(p)) = p

IsBodyKey(k) == StartsWith(k, "ph_body") \/ StartsWith(k, "ph_col")

\* [k for k in fields.keys() if k.startswith("ph_body") or k.startswith("ph_col")]
BodyFieldKeys(fields) ==
    SelectSeq([i \in 1..Len(fields) |-> fields[i].key], IsBodyKey)

\* dict.get(key, default)
Get(d, k, default) == IF k \in DOMAIN d THEN d[k] ELSE default

DefaultMaxTitleChars == 100
DefaultMaxBullets == 7
DefaultMaxWordsPerBullet == 18
DefaultMaxTotalBodyChars == 500
DefaultBodyLineBudget == 12
DefaultAvgCharsPerLine == 50

Constraints(layout_entry) == Get(layout_entry, "constraints", <<>>)
MaxTitleChars(layout_entry) ==
    Get(Constraints(layout_entry), "max_title_chars", DefaultMaxTitleChars)
MaxBulletsOf(layout_entry) ==
    Get(Constraints(layout_entry), "max_bullets", DefaultMaxBullets)
MaxWordsPerBullet(layout_entry) ==
    Get(Constraints(layout_entry), "max_words_per_bullet", DefaultMaxWordsPerBullet)
MaxTotalBodyChars(layout_entry) ==
    Get(Constraints(layout_entry), "max_total_body_chars", DefaultMaxTotalBodyChars)
BodyLineBudget(layout_entry) ==
    Get(Constraints(layout_entry), "body_line_budget", DefaultBodyLineBudget)
AvgCharsPerLine(layout_entry) ==
    Get(Constraints(layout_entry), "avg_chars_per_line", DefaultAvgCharsPerLine)

ValidationViolation(slide, field_key, violation_type, severity, recommended_action) ==
    [slide_id |-> slide.slide_id, layout_id |-> slide.layout_id,
     field_key |-> field_key, violation_type |-> violation_type,
     severity |-> severity, recommended_action |-> recommended_action]

(***************************************************************************)
(* _validate_slide                                                         *)
(***************************************************************************)
TitleViolations(slide, layout_entry, h) ==
    IF /\ HasField(slide.fields, "ph_title")
       /\ _count_chars(FieldOf(slide.fields, "ph_title"), h) > MaxTitleChars(layout_entry)
    THEN <<ValidationViolation(slide, "ph_title", "TITLE_TOO_LONG", "WARN",
             "Truncate title to " \o ToString(MaxTitleChars(layout_entry)) \o " chars")>>
    ELSE <<>>

BodyFieldViolations(slide, field_key, layout_entry, h) ==
    LET value == FieldOf(slide.fields, field_key)
        max_bullets == MaxBulletsOf(layout_entry)
        max_words_per_bullet == MaxWordsPerBullet(layout_entry)
        max_total_body_chars == MaxTotalBodyChars(layout_entry)
        body_line_budget == BodyLineBudget(layout_entry)
        estimated_lines == _estimate_lines(value, AvgCharsPerLine(layout_entry), h)
    IN  (IF max_bullets > 0 /\ _count_bullets(value, h) > max_bullets
         THEN <<ValidationViolation(slide, field_key, "TOO_MANY_BULLETS", "BLOCKING",
                  "Reduce to " \o ToString(max_bullets)
                      \o " bullets or move overflow to notes")>>
         ELSE <<>>)
        \o
        (IF _max_words_in_bullet(value, h) > max_words_per_bullet
         THEN <<ValidationViolation(slide, field_key, "WORDS_PER_BULLET", "WARN",
                  "Shorten bullets to " \o ToString(max_words_per_bullet) \o " words max")>>
         ELSE <<>>)
        \o
        (IF max_total_body_chars > 0 /\ _count_chars(value, h) > max_total_body_chars
         THEN <<ValidationViolation(slide, field_key, "TOTAL_BODY_CHARS", "BLOCKING",
                  "Reduce body text to " \o ToString(max_total_body_chars) \o " chars")>>
         ELSE <<>>)
        \o
        (IF body_line_budget > 0 /\ estimated_lines > body_line_budget
         THEN <<ValidationViolation(slide, field_key, "BODY_LINE_BUDGET", "WARN",
                  "Content exceeds line budget (" \o ToString(estimated_lines) \o " > "
                      \o ToString(body_line_budget) \o ")")>>
         ELSE <<>>)

RECURSIVE BodyViolations(_, _, _, _)
BodyViolations(slide, body_fields, layout_entry, h) ==
    IF body_fields = <<>> THEN <<>>
    ELSE BodyFieldViolations(slide, Head(body_fields), layout_entry, h)
         \o BodyViolations(slide, Tail(body_fields), layout_entry, h)

_validate_slide(slide, layout_entry, h) ==
    TitleViolations(slide, layout_entry, h)
    \o BodyViolations(slide, BodyFieldKeys(slide.fields), layout_entry, h)

(***************************************************************************)
(* Speaker notes: None, a str or a dict (a sequence of (key, value)        *)
(* entries of strings, in insertion order).                                *)
(***************************************************************************)
NoNotes == [kind |-> "none"]
TextNotes(s) == [kind |-> "text", text |-> s]
MapNotes(entries) == [kind |-> "map", entries |-> entries]

\* the characters of keys, in the order of their code points
KeyChars == "0123456789ABCDEFGHIJKLMNOPQRSTUVWXYZ_abcdefghijklmnopqrstuvwxyz"
CodePoint(c) == CHOOSE n \in 1..Len(KeyChars) : Ch(KeyChars, n) = c

\* a < b for two str keys
RECURSIVE StrLess(_, _)
StrLess(a, b) ==
    IF b = "" THEN FALSE
    ELSE IF a = "" THEN TRUE
    ELSE IF Ch(a, 1) = Ch(b, 1) THEN StrLess(Suffix(a, 1), Suffix(b, 1))
    ELSE CodePoint(Ch(a, 1)) < CodePoint(Ch(b, 1))

\* sorted(entries) by key
RECURSIVE SortEntries(_)
SortEntries(entries) ==
    IF entries = <<>> THEN <<>>
    ELSE LET m == CHOOSE i \in 1..Len(entries) :
                    \A j \in 1..Len(entries) : ~StrLess(entries[j].key, entries[i].key)
         IN  <<entries[m]>>
             \o SortEntries(SubSeq(entries, 1, m - 1) \o SubSeq(entries, m + 1, Len(entries)))

\* json.dumps(d, sort_keys=True) of a dict of plain ASCII strings
JsonDumps(entries) ==
    LET sorted == SortEntries(entries)
        pairs == [i \in 1..Len(sorted) |->
                    "\"" \o sorted[i].key \o "\": \"" \o sorted[i].value \o "\""]
    IN  "{" \o Join(pairs, ", ") \o "}"

\* x or "" followed by the json.dumps of a dict
OriginalNotes(speaker_notes) ==
    IF speaker_notes.kind = "text" THEN speaker_notes.text
    ELSE IF speaker_notes.kind = "map" /\ speaker_notes.entries # <<>>
         THEN JsonDumps(speaker_notes.entries)
    ELSE ""

\* str(x) of a field value: the text itself, or the repr of a list of
\* strings free of quotes, backslashes and control characters
PyStr(value, h) ==
    IF IsStr(value) THEN value.text
    ELSE LET items == Items(value, h)
         IN  "[" \o Join([i \in 1..Len(items) |-> "'" \o items[i] \o "'"], ", ") \o "]"

(***************************************************************************)
(* _remediate_slide                                                        *)
(***************************************************************************)
\* copy.deepcopy(slide.fields): every list becomes a new object
RECURSIVE DeepCopyFrom(_, _, _)
DeepCopyFrom(fields, i, h) ==
    IF i > Len(fields) THEN [fields |-> fields, heap |-> h]
    ELSE IF IsList(fields[i].value)
         THEN DeepCopyFrom([fields EXCEPT ![i].value = ListRef(NewRef(h))], i + 1,
                           Alloc(h, Items(fields[i].value, h)))
         ELSE DeepCopyFrom(fields, i + 1, h)
\* dict(slide.fields): the lists are shared with the input
DeepCopy_shallow(fields, h) == [fields |-> fields, heap |-> h]
DeepCopy(fields, h) == DeepCopyFrom(fields, 1, h)

HasViolation(violations, field_key, violation_type) ==
    \E i \in 1..Len(violations) :
        /\ violations[i].field_key = field_key
        /\ violations[i].violation_type = violation_type

\* the title cut to the body budget
RemediateTitle_body_budget(new_fields, violations, layout_entry, h) ==
    IF /\ HasField(new_fields, "ph_title")
       /\ HasViolation(violations, "ph_title", "TITLE_TOO_LONG")
    THEN SetField(new_fields, "ph_title",
             Str(_truncate_text(PyStr(FieldOf(new_fields, "ph_title"), h),
                                MaxTotalBodyChars(layout_entry))))
    ELSE new_fields

\* lines 193-198
RemediateTitle(new_fields, violations, layout_entry, h) ==
    IF /\ HasField(new_fields, "ph_title")
       /\ HasViolation(violations, "ph_title", "TITLE_TOO_LONG")
    THEN SetField(new_fields, "ph_title",
             Str(_truncate_text(PyStr(FieldOf(new_fields, "ph_title"), h),
                                MaxTitleChars(layout_entry))))
    ELSE new_fields

\* the overflow taken one bullet too far: value[max_bullets + 1:]
DropBullets_off_by_one(st, field_key, field_violations, layout_entry) ==
    LET value == FieldOf(st.fields, field_key)
        max_bullets == MaxBulletsOf(layout_entry)
    IN  IF /\ IsList(value)
           /\ max_bullets > 0
           /\ HasViolation(field_violations, field_key, "TOO_MANY_BULLETS")
           /\ Len(Items(value, st.heap)) > max_bullets
        THEN LET items == Items(value, st.heap)
                 kept == ListRef(NewRef(st.heap))
             IN  [fields |-> SetField(st.fields, field_key, kept),
                  notes |-> Append(st.notes, "[Overflow from " \o field_key \o "]: "
                                                \o Join(Drop(items, max_bullets + 1), " | ")),
                  heap |-> Alloc(st.heap, Take(items, max_bullets)),
                  value |-> kept]
        ELSE [fields |-> st.fields, notes |-> st.notes, heap |-> st.heap, value |-> value]

\* lines 210-219: st is (fields, notes, heap), the result adds the local "value"
DropBullets(st, field_key, field_violations, layout_entry) ==
    LET value == FieldOf(st.fields, field_key)
        max_bullets == MaxBulletsOf(layout_entry)
    IN  IF /\ IsList(value)
           /\ max_bullets > 0
           /\ HasViolation(field_violations, field_key, "TOO_MANY_BULLETS")
           /\ Len(Items(value, st.heap)) > max_bullets
        THEN LET items == Items(value, st.heap)
                 kept == ListRef(NewRef(st.heap))
             IN  [fields |-> SetField(st.fields, field_key, kept),
                  notes |-> Append(st.notes, "[Overflow from " \o field_key \o "]: "
                                                \o Join(Drop(items, max_bullets), " | ")),
                  heap |-> Alloc(st.heap, Take(items, max_bullets)),
                  value |-> kept]
        ELSE [fields |-> st.fields, notes |-> st.notes, heap |-> st.heap, value |-> value]

\* lines 221-227
Condense(st, field_key, field_violations, layout_entry) ==
    LET max_words_per_bullet == MaxWordsPerBullet(layout_entry)
    IN  IF ~HasViolation(field_violations, field_key, "WORDS_PER_BULLET")
        THEN [fields |-> st.fields, notes |-> st.notes, heap |-> st.heap]
        ELSE IF IsList(st.value)
        THEN LET items == Items(st.value, st.heap)
             IN  [fields |-> SetField(st.fields, field_key, ListRef(NewRef(st.heap))),
                  notes |-> st.notes,
                  heap |-> Alloc(st.heap,
                             [i \in 1..Len(items) |->
                                 _shorten_bullet(items[i], max_words_per_bullet)])]
        ELSE [fields |-> SetField(st.fields, field_key,
                             Str(_shorten_bullet(st.value.text, max_words_per_bullet))),
              notes |-> st.notes, heap |-> st.heap]

\* lines 235-237 without line 237: the bullets are popped and not recorded
RECURSIVE PopLoop_unrecorded(_, _, _, _)
PopLoop_unrecorded(items, notes, field_key, max_total_body_chars) ==
    IF Len(items) > 1 /\ SumLen(items) > max_total_body_chars
    THEN PopLoop_unrecorded(SubSeq(items, 1, Len(items) - 1), notes,
                            field_key, max_total_body_chars)
    ELSE [items |-> items, notes |-> notes]

\* lines 235-237 as an "if" instead of a "while": one bullet at most is moved
PopLoop_once(items, notes, field_key, max_total_body_chars) ==
    IF Len(items) > 1 /\ SumLen(items) > max_total_body_chars
    THEN [items |-> SubSeq(items, 1, Len(items) - 1),
          notes |-> Append(notes, "[Moved from " \o field_key \o "]: " \o items[Len(items)])]
    ELSE [items |-> items, notes |-> notes]

\* lines 235-237: value.pop() until one bullet is left or the budget is met
RECURSIVE PopLoop(_, _, _, _)
PopLoop(items, notes, field_key, max_total_body_chars) ==
    IF Len(items) > 1 /\ SumLen(items) > max_total_body_chars
    THEN PopLoop(SubSeq(items, 1, Len(items) - 1),
                 Append(notes, "[Moved from " \o field_key \o "]: " \o items[Len(items)]),
                 field_key, max_total_body_chars)
    ELSE [items |-> items, notes |-> notes]

\* lines 229-249
MoveToSpeakerNotes(st, field_key, layout_entry) ==
    LET value == FieldOf(st.fields, field_key)
        max_total_body_chars == MaxTotalBodyChars(layout_entry)
    IN  IF ~(max_total_body_chars > 0 /\ _count_chars(value, st.heap) > max_total_body_chars)
        THEN st
        ELSE IF IsList(value) /\ Len(Items(value, st.heap)) > 1
        THEN LET popped == PopLoop(Items(value, st.heap), st.notes, field_key,
                                   max_total_body_chars)
             IN  [fields |-> st.fields, notes |-> popped.notes,
                  heap |-> [st.heap EXCEPT ![value.ref] = popped.items]]
        ELSE IF IsList(value) /\ Len(Items(value, st.heap)) = 1
        THEN LET original == Items(value, st.heap)[1]
                 truncated == _truncate_text(original, max_total_body_chars)
             IN  [fields |-> SetField(st.fields, field_key, ListRef(NewRef(st.heap))),
                  notes |-> IF truncated # original
                            THEN Append(st.notes,
                                   "[Full text from " \o field_key \o "]: " \o original)
                            ELSE st.notes,
                  heap |-> Alloc(st.heap, <<truncated>>)]
        ELSE IF IsStr(value)
        THEN [fields |-> SetField(st.fields, field_key,
                             Str(_truncate_text(value.text, max_total_body_chars))),
              notes |-> IF Len(value.text) > max_total_body_chars
                        THEN Append(st.notes,
                               "[Full text from " \o field_key \o "]: " \o value.text)
                        ELSE st.notes,
              heap |-> st.heap]
        ELSE st

\* violations_by_field.get(field_key, [])
ViolationsOfField(violations, field_key) ==
    LET OfField(v) == v.field_key = field_key
    IN  SelectSeq(violations, OfField)

\* one iteration of the loop of lines 203-249
RemediateBodyField(st, field_key, violations, layout_entry) ==
    LET field_violations == ViolationsOfField(violations, field_key)
    IN  IF field_violations = <<>> THEN st
        ELSE MoveToSpeakerNotes(
                 Condense(DropBullets(st, field_key, field_violations, layout_entry),
                          field_key, field_violations, layout_entry),
                 field_key, layout_entry)

RECURSIVE RemediateBodyFields(_, _, _, _)
RemediateBodyFields(st, body_fields, violations, layout_entry) ==
    IF body_fields = <<>> THEN st
    ELSE RemediateBodyFields(
             RemediateBodyField(st, Head(body_fields), violations, layout_entry),
             Tail(body_fields), violations, layout_entry)

\* lines 251-260
NewNotes(speaker_notes, notes_additions) ==
    LET original_notes == OriginalNotes(speaker_notes)
        separator == IF original_notes # ""
                     THEN "\n\n---\n[REMEDIATION OVERFLOW]\n"
                     ELSE "[REMEDIATION OVERFLOW]\n"
    IN  IF notes_additions # <<>>
        THEN original_notes \o separator \o Join(notes_additions, "\n")
        ELSE original_notes

\* the DeckSlide of lines 262-269 built without asset_refs
_remediate_slide_no_assets(slide, violations, layout_entry, h) ==
    LET copied == DeepCopy(slide.fields, h)
        titled == RemediateTitle(copied.fields, violations, layout_entry, copied.heap)
        done == RemediateBodyFields(
                    [fields |-> titled, notes |-> <<>>, heap |-> copied.heap],
                    BodyFieldKeys(titled), violations, layout_entry)
    IN  [slide |-> [slide EXCEPT !.fields = done.fields,
                                 !.asset_refs = <<>>,
                                 !.speaker_notes =
                                     TextNotes(NewNotes(slide.speaker_notes, done.notes))],
         heap |-> done.heap]

\* the remediated slide and the heap after the call
_remediate_slide(slide, violations, layout_entry, h) ==
    LET copied == DeepCopy(slide.fields, h)
        titled == RemediateTitle(copied.fields, violations, layout_entry, copied.heap)
        done == RemediateBodyFields(
                    [fields |-> titled, notes |-> <<>>, heap |-> copied.heap],
                    BodyFieldKeys(titled), violations, layout_entry)
    IN  [slide |-> [slide EXCEPT !.fields = done.fields,
                                 !.speaker_notes =
                                     TextNotes(NewNotes(slide.speaker_notes, done.notes))],
         heap |-> done.heap]

(***************************************************************************)
(* validate_and_remediate                                                  *)
(***************************************************************************)
\* layout_catalog.get(layout_id) is an entry (every entry is a non-empty dict)
Resolves(layout_catalog, layout_id) == layout_id \in DOMAIN layout_catalog

\* the unknown layout reported as a WARN
ProcessSlide_warn(acc, slide, layout_catalog) ==
    IF ~Resolves(layout_catalog, slide.layout_id)
        THEN [violations |-> Append(acc.violations,
                                 ValidationViolation(slide, None, "BODY_TOO_DENSE", "WARN",
                                     "Unknown layout_id: " \o slide.layout_id)),
              slides |-> Append(acc.slides, slide),
              heap |-> acc.heap]
        ELSE LET layout_entry == layout_catalog[slide.layout_id]
                 slide_violations == _validate_slide(slide, layout_entry, acc.heap)
             IN  IF slide_violations # <<>>
                 THEN LET remediated ==
                              _remediate_slide(slide, slide_violations, layout_entry, acc.heap)
                      IN  [violations |-> acc.violations \o slide_violations,
                           slides |-> Append(acc.slides, remediated.slide),
                           heap |-> remediated.heap]
                 ELSE [violations |-> acc.violations,
                       slides |-> Append(acc.slides, slide),
                       heap |-> acc.heap]

\* remediation whenever the report so far is not empty: "if all_violations:"
ProcessSlide_all_violations(acc, slide, layout_catalog) ==
    IF ~Resolves(layout_catalog, slide.layout_id)
        THEN [violations |-> Append(acc.violations,
                                 ValidationViolation(slide, None, "BODY_TOO_DENSE", "BLOCKING",
                                     "Unknown layout_id: " \o slide.layout_id)),
              slides |-> Append(acc.slides, slide),
              heap |-> acc.heap]
        ELSE LET layout_entry == layout_catalog[slide.layout_id]
                 slide_violations == _validate_slide(slide, layout_entry, acc.heap)
                 all_violations == acc.violations \o slide_violations
             IN  IF all_violations # <<>>
                 THEN LET remediated ==
                              _remediate_slide(slide, slide_violations, layout_entry, acc.heap)
                      IN  [violations |-> all_violations,
                           slides |-> Append(acc.slides, remediated.slide),
                           heap |-> remediated.heap]
                 ELSE [violations |-> all_violations,
                       slides |-> Append(acc.slides, slide),
                       heap |-> acc.heap]

\* one iteration of the loop of lines 288-312; acc is (violations, slides, heap)
ProcessSlide(acc, slide, layout_catalog) ==
    IF ~Resolves(layout_catalog, slide.layout_id)
        THEN [violations |-> Append(acc.violations,
                                 ValidationViolation(slide, None, "BODY_TOO_DENSE", "BLOCKING",
                                     "Unknown layout_id: " \o slide.layout_id)),
              slides |-> Append(acc.slides, slide),
              heap |-> acc.heap]
        ELSE LET layout_entry == layout_catalog[slide.layout_id]
                 slide_violations == _validate_slide(slide, layout_entry, acc.heap)
             IN  IF slide_violations # <<>>
                 THEN LET remediated ==
                              _remediate_slide(slide, slide_violations, layout_entry, acc.heap)
                      IN  [violations |-> acc.violations \o slide_violations,
                           slides |-> Append(acc.slides, remediated.slide),
                           heap |-> remediated.heap]
                 ELSE [violations |-> acc.violations,
                       slides |-> Append(acc.slides, slide),
                       heap |-> acc.heap]

RECURSIVE ProcessSlides(_, _, _)
ProcessSlides(acc, slides, layout_catalog) ==
    IF slides = <<>> THEN acc
    ELSE ProcessSlides(ProcessSlide(acc, Head(slides), layout_catalog),
                       Tail(slides), layout_catalog)

\* the returned (deck, report) and the heap after the call; the DeckIR built
\* at line 315 is a new object
validate_and_remediate(deck, layout_catalog, h) ==
    LET done == ProcessSlides([violations |-> <<>>, slides |-> <<>>, heap |-> h],
                              deck.slides, layout_catalog)
    IN  [deck |-> [deck EXCEPT !.oid = NewRef(done.heap), !.slides = done.slides],
         report |-> [violations |-> done.violations],
         heap |-> Alloc(done.heap, <<>>)]

(***************************************************************************)
(* Renderer.render.  The presentation library is outside the repository:   *)
(* a layout is a sequence of shapes, add_slide gives the new slide a copy   *)
(* of every placeholder of the layout but the date, footer and slide       *)
(* number ones, and whether a copy carries the layout shape's descr is     *)
(* left to the template (template.clones_descr).                           *)
(***************************************************************************)
\* no template, no assets: the state of the specifications that render nothing
NoTemplate ==
    /\ template = None
    /\ icon_index = <<>>
    /\ fs_files = {}

NoFile == [kind |-> "absent"]
Document(slides) == [kind |-> "pptx", slides |-> slides]

NoResult == [kind |-> "none"]
RenderMap(entries) == [kind |-> "RenderMap", entries |-> entries]

\* render not called yet, nothing at output_path
RenderIdle ==
    /\ output_file = NoFile
    /\ saves = 0
    /\ r_pc = "idle"
    /\ r_deck = None
    /\ r_done = 0
    /\ prs = <<>>
    /\ render_map = <<>>
    /\ r_error = None
    /\ r_result = NoResult

\* drift._read_alt_text: the descr of an sp or pic element, None when empty
_read_alt_text(shape) ==
    IF shape.elem \in {"sp", "pic"} /\ shape.descr # "" THEN shape.descr ELSE None

\* Renderer._set_alt_text
_set_alt_text(shape, field_key) ==
    IF shape.elem \in {"sp", "pic"} THEN [shape EXCEPT !.descr = field_key] ELSE shape

\* Renderer._layout_field_key_by_idx(layout).get(idx): the alt text of the
\* last placeholder of the layout with that idx and an alt text
FieldKeyByIdx(layout, idx) ==
    LET with == {j \in 1..Len(layout.shapes) :
                    /\ layout.shapes[j].is_placeholder
                    /\ _read_alt_text(layout.shapes[j]) # None
                    /\ layout.shapes[j].idx = idx}
    IN  IF with = {} THEN None
        ELSE _read_alt_text(layout.shapes[CHOOSE j \in with : \A k \in with : k <= j])

Cloneable(shape) == shape.is_placeholder /\ shape.ph_type \notin {"dt", "ftr", "sldNum"}

\* prs.slides.add_slide(layout): the shapes of the new slide
ClonedShapes(layout) ==
    LET clone(shape) ==
            [is_placeholder |-> TRUE, idx |-> shape.idx, ph_type |-> shape.ph_type,
             elem |-> "sp", has_text_frame |-> shape.has_text_frame,
             descr |-> IF template.clones_descr THEN shape.descr ELSE "",
             paragraphs |-> <<>>, picture |-> None]
        kept == SelectSeq(layout.shapes, Cloneable)
    IN  [j \in 1..Len(kept) |-> clone(kept[j])]

\* Renderer._apply_text: one paragraph per item, str(value) for a scalar
_apply_text(shape, value) ==
    IF ~shape.has_text_frame THEN shape
    ELSE IF IsList(value) THEN [shape EXCEPT !.paragraphs = Items(value, heap)]
    ELSE [shape EXCEPT !.paragraphs = <<value.text>>]

\* the walk that uses the key recorded for the idx without writing it back
RECURSIVE WalkShapes_no_write_back(_, _, _, _)
WalkShapes_no_write_back(w, j, layout, fields) ==
    IF j > Len(w.shapes) THEN w
    ELSE LET shape == w.shapes[j]
             own == _read_alt_text(shape)
             by_idx == IF own = None /\ shape.is_placeholder
                       THEN FieldKeyByIdx(layout, shape.idx) ELSE None
             alt_text == IF own # None THEN own ELSE by_idx
         IN  IF alt_text = None THEN WalkShapes_no_write_back(w, j + 1, layout, fields)
             ELSE WalkShapes_no_write_back(
                      [shapes |-> [w.shapes EXCEPT ![j] =
                                      IF HasField(fields, alt_text)
                                      THEN _apply_text(shape, FieldOf(fields, alt_text))
                                      ELSE shape],
                       field_keys |-> Append(w.field_keys, alt_text),
                       alt_text_to_shape |->
                           [k \in DOMAIN w.alt_text_to_shape \cup {alt_text} |->
                               IF k = alt_text THEN j ELSE w.alt_text_to_shape[k]]],
                      j + 1, layout, fields)

\* the walk that records only the keys the slide asked for
RECURSIVE WalkShapes_bound_only(_, _, _, _)
WalkShapes_bound_only(w, j, layout, fields) ==
    IF j > Len(w.shapes) THEN w
    ELSE LET shape == w.shapes[j]
             own == _read_alt_text(shape)
             by_idx == IF own = None /\ shape.is_placeholder
                       THEN FieldKeyByIdx(layout, shape.idx) ELSE None
             alt_text == IF own # None THEN own ELSE by_idx
             healed == IF own = None /\ by_idx # None
                       THEN _set_alt_text(shape, by_idx) ELSE shape
         IN  IF alt_text = None THEN WalkShapes_bound_only(w, j + 1, layout, fields)
             ELSE WalkShapes_bound_only(
                      [shapes |-> [w.shapes EXCEPT ![j] =
                                      IF HasField(fields, alt_text)
                                      THEN _apply_text(healed, FieldOf(fields, alt_text))
                                      ELSE healed],
                       field_keys |-> IF HasField(fields, alt_text)
                                      THEN Append(w.field_keys, alt_text)
                                      ELSE w.field_keys,
                       alt_text_to_shape |->
                           [k \in DOMAIN w.alt_text_to_shape \cup {alt_text} |->
                               IF k = alt_text THEN j ELSE w.alt_text_to_shape[k]]],
                      j + 1, layout, fields)

\* lines 44-58: the walk over the shapes of the new slide, from shape j on;
\* w is (shapes, field_keys, alt_text_to_shape)
RECURSIVE WalkShapes(_, _, _, _)
WalkShapes(w, j, layout, fields) ==
    IF j > Len(w.shapes) THEN w
    ELSE LET shape == w.shapes[j]
             own == _read_alt_text(shape)
             by_idx == IF own = None /\ shape.is_placeholder
                       THEN FieldKeyByIdx(layout, shape.idx) ELSE None
             alt_text == IF own # None THEN own ELSE by_idx
             healed == IF own = None /\ by_idx # None
                       THEN _set_alt_text(shape, by_idx) ELSE shape
         IN  IF alt_text = None THEN WalkShapes(w, j + 1, layout, fields)
             ELSE WalkShapes(
                      [shapes |-> [w.shapes EXCEPT ![j] =
                                      IF HasField(fields, alt_text)
                                      THEN _apply_text(healed, FieldOf(fields, alt_text))
                                      ELSE healed],
                       field_keys |-> Append(w.field_keys, alt_text),
                       alt_text_to_shape |->
                           [k \in DOMAIN w.alt_text_to_shape \cup {alt_text} |->
                               IF k = alt_text THEN j ELSE w.alt_text_to_shape[k]]],
                      j + 1, layout, fields)

IconsDir == "icons"
ProjectRoot == "root"

\* Renderer._resolve_asset_path: the path, or the exception
_resolve_asset_path(asset_ref) ==
    IF asset_ref.asset_type = "icon"
    THEN IF asset_ref.asset_id \notin DOMAIN icon_index
         THEN [error |-> "Unknown icon_id: " \o asset_ref.asset_id]
         ELSE [error |-> None,
               path |-> IconsDir \o "/png/" \o icon_index[asset_ref.asset_id]]
    ELSE IF StartsWith(asset_ref.asset_id, "/")
         THEN [error |-> None, path |-> asset_ref.asset_id]
    ELSE IF ProjectRoot \o "/" \o asset_ref.asset_id \in fs_files
         THEN [error |-> None, path |-> ProjectRoot \o "/" \o asset_ref.asset_id]
    ELSE IF ProjectRoot \o "/assets/" \o asset_ref.asset_id \in fs_files
         THEN [error |-> None, path |-> ProjectRoot \o "/assets/" \o asset_ref.asset_id]
    ELSE [error |-> "Missing asset: " \o asset_ref.asset_id]

\* Renderer._apply_image on the shape at position j: insert_picture fills a
\* picture placeholder, any other shape gets a picture shape added over it;
\* a file that does not exist makes both raise
_apply_image(shapes, j, asset_path) ==
    IF asset_path \notin fs_files
    THEN [error |-> "No such file: " \o asset_path, shapes |-> shapes]
    ELSE IF shapes[j].ph_type = "pic" /\ shapes[j].picture = None
    THEN [error |-> None,
          shapes |-> [shapes EXCEPT ![j].picture = asset_path, ![j].elem = "pic"]]
    ELSE [error |-> None,
          shapes |-> Append(shapes,
                        [is_placeholder |-> FALSE, idx |-> shapes[j].idx, ph_type |-> "none",
                         elem |-> "pic", has_text_frame |-> FALSE, descr |-> "",
                         paragraphs |-> <<>>, picture |-> asset_path])]

\* an asset_ref without a usable target is passed over
RECURSIVE ApplyAssets_skip_missing(_, _, _, _)
ApplyAssets_skip_missing(shapes, alt_text_to_shape, asset_refs, k) ==
    IF k > Len(asset_refs) THEN [error |-> None, shapes |-> shapes]
    ELSE LET asset_ref == asset_refs[k]
         IN  IF \/ asset_ref.target_field_key = None
                \/ asset_ref.target_field_key \notin DOMAIN alt_text_to_shape
             THEN ApplyAssets_skip_missing(shapes, alt_text_to_shape, asset_refs, k + 1)
             ELSE LET resolved == _resolve_asset_path(asset_ref)
                  IN  IF resolved.error # None
                      THEN [error |-> resolved.error, shapes |-> shapes]
                      ELSE LET applied ==
                                   _apply_image(shapes,
                                       alt_text_to_shape[asset_ref.target_field_key],
                                       resolved.path)
                           IN  IF applied.error # None THEN applied
                               ELSE ApplyAssets_skip_missing(applied.shapes,
                                        alt_text_to_shape, asset_refs, k + 1)

\* lines 60-71: the asset_refs from the k-th on; the shapes, or the exception
RECURSIVE ApplyAssets(_, _, _, _)
ApplyAssets(shapes, alt_text_to_shape, asset_refs, k) ==
    IF k > Len(asset_refs) THEN [error |-> None, shapes |-> shapes]
    ELSE LET asset_ref == asset_refs[k]
         IN  IF asset_ref.target_field_key = None
             THEN [error |-> "Asset ref missing target_field_key: " \o asset_ref.asset_id,
                   shapes |-> shapes]
             ELSE IF asset_ref.target_field_key \notin DOMAIN alt_text_to_shape
             THEN [error |-> "Missing placeholder for asset target: "
                                \o asset_ref.target_field_key,
                   shapes |-> shapes]
             ELSE LET resolved == _resolve_asset_path(asset_ref)
                  IN  IF resolved.error # None
                      THEN [error |-> resolved.error, shapes |-> shapes]
                      ELSE LET applied ==
                                   _apply_image(shapes,
                                       alt_text_to_shape[asset_ref.target_field_key],
                                       resolved.path)
                           IN  IF applied.error # None THEN applied
                               ELSE ApplyAssets(applied.shapes, alt_text_to_shape,
                                                asset_refs, k + 1)

\* lines 73-81
NotesText(speaker_notes) ==
    IF speaker_notes.kind = "none" THEN ""
    ELSE IF speaker_notes.kind = "map" THEN JsonDumps(speaker_notes.entries)
    ELSE speaker_notes.text

\* sorted(set(field_keys))
RECURSIVE SortKeys(_)
SortKeys(keys) ==
    IF keys = {} THEN <<>>
    ELSE LET least == CHOOSE k \in keys : \A o \in keys : ~StrLess(o, k)
         IN  <<least>> \o SortKeys(keys \ {least})
SortedSet(field_keys) == SortKeys({field_keys[j] : j \in 1..Len(field_keys)})

\* render_map.entries[slide_id] = entry
PutEntry(entries, entry) ==
    IF \E j \in 1..Len(entries) : entries[j].slide_id = entry.slide_id
    THEN [j \in 1..Len(entries) |->
             IF entries[j].slide_id = entry.slide_id THEN entry ELSE entries[j]]
    ELSE Append(entries, entry)

InTemplate(master_index, layout_index) ==
    /\ master_index \in 0..(Len(template.masters) - 1)
    /\ layout_index \in 0..(Len(template.masters[master_index + 1]) - 1)

\* a slide of unknown layout passed over, as preflight does
RenderSlide_skip_unknown(slides, entries, slide_spec) ==
    IF ~Resolves(catalog, slide_spec.layout_id)
    THEN [error |-> None, slides |-> slides, entries |-> entries]
    ELSE LET layout_entry == catalog[slide_spec.layout_id]
         IN  IF ~InTemplate(layout_entry.master_index, layout_entry.layout_index)
             THEN [error |-> "IndexError", slides |-> slides, entries |-> entries]
             ELSE
             LET layout == template.masters[layout_entry.master_index + 1]
                                           [layout_entry.layout_index + 1]
                 walked == WalkShapes([shapes |-> ClonedShapes(layout), field_keys |-> <<>>,
                                       alt_text_to_shape |-> <<>>],
                                      1, layout, slide_spec.fields)
                 assets == ApplyAssets(walked.shapes, walked.alt_text_to_shape,
                                       slide_spec.asset_refs, 1)
                 added(shapes, notes) ==
                     Append(slides, [slide_id |-> slide_spec.slide_id,
                                     layout_name |-> layout.name,
                                     shapes |-> shapes, notes |-> notes])
             IN  IF assets.error # None
                 THEN [error |-> assets.error, slides |-> added(assets.shapes, ""),
                       entries |-> entries]
                 ELSE [error |-> None,
                       slides |-> added(assets.shapes, NotesText(slide_spec.speaker_notes)),
                       entries |-> PutEntry(entries,
                                      [slide_id |-> slide_spec.slide_id,
                                       slide_index |-> Len(slides),
                                       field_keys |-> SortedSet(walked.field_keys)])]

\* one iteration of the loop of lines 34-87 on slide_spec: the presentation
\* and the RenderMap after it, and the exception that ended it, if any
RenderSlide(slides, entries, slide_spec) ==
    IF ~Resolves(catalog, slide_spec.layout_id)
    THEN [error |-> "Unknown layout_id: " \o slide_spec.layout_id,
          slides |-> slides, entries |-> entries]
    ELSE LET layout_entry == catalog[slide_spec.layout_id]
         IN  IF ~InTemplate(layout_entry.master_index, layout_entry.layout_index)
             THEN [error |-> "IndexError", slides |-> slides, entries |-> entries]
             ELSE
             LET layout == template.masters[layout_entry.master_index + 1]
                                           [layout_entry.layout_index + 1]
                 walked == WalkShapes([shapes |-> ClonedShapes(layout), field_keys |-> <<>>,
                                       alt_text_to_shape |-> <<>>],
                                      1, layout, slide_spec.fields)
                 assets == ApplyAssets(walked.shapes, walked.alt_text_to_shape,
                                       slide_spec.asset_refs, 1)
                 added(shapes, notes) ==
                     Append(slides, [slide_id |-> slide_spec.slide_id,
                                     layout_name |-> layout.name,
                                     shapes |-> shapes, notes |-> notes])
             IN  IF assets.error # None
                 THEN [error |-> assets.error, slides |-> added(assets.shapes, ""),
                       entries |-> entries]
                 ELSE [error |-> None,
                       slides |-> added(assets.shapes, NotesText(slide_spec.speaker_notes)),
                       entries |-> PutEntry(entries,
                                      [slide_id |-> slide_spec.slide_id,
                                       slide_index |-> Len(slides),
                                       field_keys |-> SortedSet(walked.field_keys)])]

\* lines 27-32: the call, up to the loop
RenderBegin(d) ==
    /\ r_pc = "idle"
    /\ r_pc' = "slides"
    /\ r_deck' = d
    /\ r_done' = 0
    /\ prs' = <<>>                  \* _remove_existing_slides
    /\ render_map' = <<>>
    /\ UNCHANGED <<output_file, saves, r_error, r_result>>
    /\ UNCHANGED <<pfVars, txVars, envVars, drVars, cliVars>>

\* prs.save inside the loop: every completed iteration writes the document
RenderSlideDone_saves ==
    /\ r_pc = "slides"
    /\ r_done < Len(r_deck.slides)
    /\ LET step == RenderSlide(prs, render_map, r_deck.slides[r_done + 1])
       IN  /\ step.error = None
           /\ prs' = step.slides
           /\ render_map' = step.entries
           /\ output_file' = Document(step.slides)
    /\ saves' = saves + 1
    /\ r_done' = r_done + 1
    /\ UNCHANGED <<r_pc, r_deck, r_error, r_result>>
    /\ UNCHANGED <<pfVars, txVars, envVars, drVars, cliVars>>

\* an iteration that completes
RenderSlideDone ==
    /\ r_pc = "slides"
    /\ r_done < Len(r_deck.slides)
    /\ LET step == RenderSlide(prs, render_map, r_deck.slides[r_done + 1])
       IN  /\ step.error = None
           /\ prs' = step.slides
           /\ render_map' = step.entries
    /\ r_done' = r_done + 1
    /\ UNCHANGED <<output_file, saves, r_pc, r_deck, r_error, r_result>>
    /\ UNCHANGED <<pfVars, txVars, envVars, drVars, cliVars>>

\* an iteration that raises: render ends there
RenderSlideRaise ==
    /\ r_pc = "slides"
    /\ r_done < Len(r_deck.slides)
    /\ LET step == RenderSlide(prs, render_map, r_deck.slides[r_done + 1])
       IN  /\ step.error # None
           /\ prs' = step.slides
           /\ r_error' = step.error
    /\ r_pc' = "raised"
    /\ UNCHANGED <<output_file, saves, r_deck, r_done, render_map, r_result>>
    /\ UNCHANGED <<pfVars, txVars, envVars, drVars, cliVars>>

\* lines 89-91: after the loop
RenderSave ==
    /\ r_pc = "slides"
    /\ r_done = Len(r_deck.slides)
    /\ output_file' = Document(prs)
    /\ saves' = saves + 1
    /\ r_result' = RenderMap(render_map)
    /\ r_pc' = "returned"
    /\ UNCHANGED <<r_deck, r_done, prs, render_map, r_error>>
    /\ UNCHANGED <<pfVars, txVars, envVars, drVars, cliVars>>

(***************************************************************************)
(* Drift validator (validate/drift.py).  A catalog entry is a JSON object: *)
(* its coordinates are JSON values of any type, its layout_id and          *)
(* template_layout_name are strings or None (absent or null).              *)
(***************************************************************************)
JInt(n) == [t |-> "int", n |-> n]
JBool(b) == [t |-> "bool", b |-> b]
JStr(s) == [t |-> "str", s |-> s]
JNull == [t |-> "null"]

\* isinstance(value, int): bool is a subclass of int
IsInstanceInt(value) == value.t \in {"int", "bool"}

\* the integer a value that passed isinstance(value, int) compares and indexes as
IntOf(value) == IF value.t = "bool" THEN (IF value.b THEN 1 ELSE 0) ELSE value.n

\* f"{value}"
PyFormat(value) ==
    CASE value.t = "int" -> ToString(value.n)
      [] value.t = "bool" -> (IF value.b THEN "True" ELSE "False")
      [] value.t = "str" -> value.s
      [] OTHER -> "None"

NotRun == [kind |-> "none"]
Errors(list) == [kind |-> "errors", list |-> list]

DriftIdle ==
    /\ layouts = <<>>
    /\ d_errors = NotRun

CliIdle ==
    /\ c_cmd = "none"
    /\ c_pc = "idle"
    /\ c_trace = <<>>
    /\ c_rc = <<>>
    /\ deckir_exists = FALSE

\* _layout_field_keys
_layout_field_keys(layout) ==
    {_read_alt_text(layout.shapes[i]) : i \in 1..Len(layout.shapes)} \ {None, ""}

\* the loop over layout_entry.get("fields", []) of validate_template_catalog
RECURSIVE RequiredFieldErrors(_, _, _)
RequiredFieldErrors(layout_id, field_list, field_keys) ==
    IF field_list = <<>> THEN <<>>
    ELSE LET field == Head(field_list)
             rest == RequiredFieldErrors(layout_id, Tail(field_list), field_keys)
         IN  IF ~field.required THEN rest
             ELSE IF field.field_key \notin {None, ""} /\ field.field_key \notin field_keys
                  THEN <<"Layout " \o layout_id \o " missing required field_key: "
                         \o field.field_key>> \o rest
                  ELSE rest

\* the coordinates pass both range tests of validate_template_catalog
MasterResolves(masters, master_index) ==
    /\ IsInstanceInt(master_index)
    /\ IntOf(master_index) >= 0
    /\ IntOf(master_index) < Len(masters)

LayoutResolves(master, layout_index) ==
    /\ IsInstanceInt(layout_index)
    /\ IntOf(layout_index) >= 0
    /\ IntOf(layout_index) < Len(master)

\* an entry whose coordinates do not resolve is passed over without an error
EntryErrors_silent_range(masters, layout_entry, seen_layout_ids) ==
    LET layout_id == layout_entry.layout_id
        master_index == layout_entry.master_index
        layout_index == layout_entry.layout_index
        template_layout_name == layout_entry.template_layout_name
    IN  IF layout_id \in {None, ""} THEN <<"Catalog entry missing layout_id">>
        ELSE IF layout_id \in seen_layout_ids
        THEN <<"Duplicate layout_id in catalog: " \o layout_id>>
        ELSE IF ~MasterResolves(masters, master_index) THEN <<>>
        ELSE LET master == masters[IntOf(master_index) + 1]
             IN  IF ~LayoutResolves(master, layout_index) THEN <<>>
                 ELSE LET layout == master[IntOf(layout_index) + 1]
                      IN  (IF template_layout_name \notin {None, ""}
                              /\ layout.name # template_layout_name
                           THEN <<"Layout " \o layout_id \o " name mismatch: catalog='"
                                  \o template_layout_name \o "' template='"
                                  \o layout.name \o "'">>
                           ELSE <<>>)
                          \o RequiredFieldErrors(layout_id, layout_entry.fields,
                                                 _layout_field_keys(layout))

\* one iteration of the loop over the catalog's layouts: the errors it appends
EntryErrors(masters, layout_entry, seen_layout_ids) ==
    LET layout_id == layout_entry.layout_id
        master_index == layout_entry.master_index
        layout_index == layout_entry.layout_index
        template_layout_name == layout_entry.template_layout_name
    IN  IF layout_id \in {None, ""} THEN <<"Catalog entry missing layout_id">>
        ELSE IF layout_id \in seen_layout_ids
        THEN <<"Duplicate layout_id in catalog: " \o layout_id>>
        ELSE IF ~MasterResolves(masters, master_index)
        THEN <<"Layout " \o layout_id \o " missing in template: master_index="
               \o PyFormat(master_index)>>
        ELSE LET master == masters[IntOf(master_index) + 1]
             IN  IF ~LayoutResolves(master, layout_index)
                 THEN <<"Layout " \o layout_id \o " missing in template: master_index="
                        \o PyFormat(master_index) \o ", layout_index="
                        \o PyFormat(layout_index)>>
                 ELSE LET layout == master[IntOf(layout_index) + 1]
                      IN  (IF template_layout_name \notin {None, ""}
                              /\ layout.name # template_layout_name
                           THEN <<"Layout " \o layout_id \o " name mismatch: catalog='"
                                  \o template_layout_name \o "' template='"
                                  \o layout.name \o "'">>
                           ELSE <<>>)
                          \o RequiredFieldErrors(layout_id, layout_entry.fields,
                                                 _layout_field_keys(layout))

\* seen_layout_ids as it stands when entry j is reached
SeenBefore(entries, j) ==
    {entries[i].layout_id : i \in 1..(j - 1)} \ {None, ""}

\* the loop left at the first entry that has an error ("break" for "continue")
RECURSIVE CatalogErrors_stop_at_defect(_, _, _)
CatalogErrors_stop_at_defect(masters, entries, j) ==
    IF j > Len(entries) THEN <<>>
    ELSE LET found == EntryErrors(masters, entries[j], SeenBefore(entries, j))
         IN  IF found # <<>> THEN found
             ELSE CatalogErrors_stop_at_defect(masters, entries, j + 1)

RECURSIVE CatalogErrors(_, _, _)
CatalogErrors(masters, entries, j) ==
    IF j > Len(entries) THEN <<>>
    ELSE EntryErrors(masters, entries[j], SeenBefore(entries, j))
         \o CatalogErrors(masters, entries, j + 1)

\* validate_template_catalog
validate_template_catalog(tmpl, entries) == CatalogErrors(tmpl.masters, entries, 1)

\* a call of validate_template_catalog(template_path, catalog_path)
DriftValidate ==
    /\ d_errors = NotRun
    /\ d_errors' = Errors(validate_template_catalog(template, layouts))
    /\ UNCHANGED layouts
    /\ UNCHANGED <<pfVars, txVars, envVars, rnVars, cliVars>>

(***************************************************************************)
(* Spec: validate_and_remediate on a deck, then again on what it returned. *)
(* Input decks are written with their lists inline and loaded into the     *)
(* heap, one new list object per list field, as model validation builds    *)
(* them.                                                                   *)
(***************************************************************************)
InlineList(items) == [kind |-> "list", items |-> items]

RECURSIVE LoadFieldsFrom(_, _, _)
LoadFieldsFrom(fields, i, h) ==
    IF i > Len(fields) THEN [fields |-> fields, heap |-> h]
    ELSE IF IsList(fields[i].value)
         THEN LoadFieldsFrom([fields EXCEPT ![i].value = ListRef(NewRef(h))], i + 1,
                             Alloc(h, fields[i].value.items))
         ELSE LoadFieldsFrom(fields, i + 1, h)

RECURSIVE LoadSlides(_, _, _)
LoadSlides(inline, loaded, h) ==
    IF inline = <<>> THEN [slides |-> loaded, heap |-> h]
    ELSE LET f == LoadFieldsFrom(Head(inline).fields, 1, h)
         IN  LoadSlides(Tail(inline),
                        Append(loaded, [Head(inline) EXCEPT !.fields = f.fields]), f.heap)

\* a deck object and its slides, built on the heap h
LoadDeckOn(inline_slides, h) ==
    LET l == LoadSlides(inline_slides, <<>>, Alloc(h, <<>>))
    IN  [deck |-> [oid |-> NewRef(h), deck_id |-> "deck", run_id |-> "run",
                   template_id |-> "template", title |-> "Title", subtitle |-> None,
                   global_constraints |-> <<>>, slides |-> l.slides],
         heap |-> l.heap]
LoadDeck(inline_slides) == LoadDeckOn(inline_slides, <<>>)

\* the slide with every list reference replaced by the list's items
DerefSlide(slide, h) ==
    [slide EXCEPT !.fields = [i \in 1..Len(slide.fields) |->
        [key |-> slide.fields[i].key, value |-> DerefValue(slide.fields[i].value, h)]]]

DerefSlides(slides, h) == [i \in 1..Len(slides) |-> DerefSlide(slides[i], h)]

BulletTexts == {"a", "b b b", "cccccc"}
ScalarTexts == {"", "b b b", "cccccc"}

RECURSIVE BulletListsOfLen(_)
BulletListsOfLen(n) ==
    IF n = 0 THEN {<<>>}
    ELSE {Append(l, b) : l \in BulletListsOfLen(n - 1), b \in BulletTexts}

BodyValues ==
    {Str(t) : t \in ScalarTexts}
    \cup {InlineList(l) : l \in UNION {BulletListsOfLen(n) : n \in 0..MaxBulletsIn}}

Field(k, value) == [key |-> k, value |-> value]

DeckSlide(slide_id, layout_id, fields, speaker_notes, asset_refs) ==
    [slide_id |-> slide_id, layout_id |-> layout_id, fields |-> fields,
     speaker_notes |-> speaker_notes, asset_refs |-> asset_refs,
     constraints_override |-> None]

KnownLayout == "L1"
UnknownLayout == "nonexistent_layout"

\* the slides under study, around a body value b
MainSlides(b) ==
    { DeckSlide("s1", KnownLayout, <<Field("ph_body", b)>>, NoNotes, <<>>),
      DeckSlide("s1", KnownLayout,
                <<Field("ph_title", InlineList(<<"aaa", "aaa">>)),
                  Field("ph_col1", b),
                  Field("ph_body_left", InlineList(<<"b b b", "cccccc">>)),
                  Field("ph_footer", Str("aaaaaaaa"))>>,
                MapNotes(<<Field("k", "b"), Field("a", "a")>>),
                <<[asset_type |-> "icon", asset_id |-> "i1",
                   target_field_key |-> "ph_footer"]>>) }

\* the slides around it
UnknownSlide ==
    DeckSlide("u", UnknownLayout,
              <<Field("ph_title", Str("aaa aaaa")),
                Field("ph_body", InlineList(<<"b b b", "cccccc", "a">>))>>,
              NoNotes, <<>>)
OtherSlide ==
    DeckSlide("f", KnownLayout,
              <<Field("ph_title", Str("aaa aaaa")),
                Field("ph_body", InlineList(<<"b b b", "cccccc", "a">>))>>,
              TextNotes("a"), <<>>)

RECURSIVE SlideSeqs(_, _)
SlideSeqs(pool, n) ==
    IF n = 0 THEN {<<>>}
    ELSE LET shorter == SlideSeqs(pool, n - 1)
         IN  shorter \cup
             {Append(q, x) : q \in {r \in shorter : Len(r) = n - 1},
                             x \in pool}

DistinctIds(q) == \A i, j \in 1..Len(q) : q[i].slide_id = q[j].slide_id => i = j

\* the decks of at most MaxSlides slides, of distinct slide_ids, that hold s
InputDecks(s) ==
    {q \in SlideSeqs({s, UnknownSlide, OtherSlide}, MaxSlides) :
        DistinctIds(q) /\ \E i \in 1..Len(q) : q[i] = s}

TitleAndLineKnobs ==
    {[t |-> 0, l |-> 0, v |-> 0, w |-> 1], [t |-> 5, l |-> 1, v |-> 3, w |-> 0],
     [t |-> 7, l |-> 2, v |-> 0, w |-> 2]}

ConstraintSets ==
    {[max_title_chars |-> k.t, max_bullets |-> b, max_words_per_bullet |-> k.w,
      max_total_body_chars |-> c, body_line_budget |-> k.l, avg_chars_per_line |-> k.v] :
        k \in TitleAndLineKnobs, b \in {0, 1, 2}, c \in {0, 4, 7}}

\* the entries "L1" can have: all six knobs, only one knob, no constraints
LayoutEntries ==
    {[layout_id |-> KnownLayout, constraints |-> c] : c \in ConstraintSets}
    \cup {[layout_id |-> KnownLayout, constraints |-> [max_bullets |-> 1]],
          [layout_id |-> KnownLayout]}

Init ==
    /\ \E entry \in LayoutEntries : catalog = (KnownLayout :> entry)
    /\ \E b \in BodyValues : \E s \in MainSlides(b) : \E q \in InputDecks(s) :
          /\ deck_in = LoadDeck(q).deck
          /\ heap = LoadDeck(q).heap
    /\ runs = <<>>
    /\ deck_b = None
    /\ runs_b = <<>>
    /\ t_text = "" /\ t_max = 0 /\ t_res = None
    /\ NoTemplate
    /\ RenderIdle
    /\ DriftIdle
    /\ CliIdle

\* a call of validate_and_remediate: on the input deck, then on the deck the
\* previous call returned
Preflight ==
    /\ Len(runs) < MaxRuns
    /\ LET input == IF runs = <<>> THEN deck_in ELSE runs[Len(runs)].deck
       IN  \E result \in {validate_and_remediate(input, catalog, heap)} :
               /\ runs' = Append(runs, [deck |-> result.deck, report |-> result.report])
               /\ heap' = result.heap
    /\ UNCHANGED <<catalog, deck_in, deck_b, runs_b>>
    /\ UNCHANGED <<txVars, envVars, rnVars, drVars, cliVars>>

Next == Preflight

Spec == Init /\ [][Next]_vars

(***************************************************************************)
(* What the claims speak of                                                *)
(***************************************************************************)
Calls == 1..Len(runs)
CallInput(n) == IF n = 1 THEN deck_in ELSE runs[n - 1].deck
CallOutput(n) == runs[n].deck
CallReport(n) == runs[n].report

\* the slide positions of call n, and those whose layout resolves
Positions(n) == 1..Len(CallInput(n).slides)
Resolved(n) == {i \in Positions(n) : Resolves(catalog, CallInput(n).slides[i].layout_id)}
EntryAt(n, i) == catalog[CallInput(n).slides[i].layout_id]

\* the positions of the fields of a slide
FieldsOf(slide) == 1..Len(slide.fields)

Reported(n, slide, field_key, violation_type, severity) ==
    \E j \in 1..Len(CallReport(n).violations) :
        LET v == CallReport(n).violations[j]
        IN  /\ v.slide_id = slide.slide_id
            /\ v.field_key = field_key
            /\ v.violation_type = violation_type
            /\ v.severity = severity

\* sub occurs in s
Contains(s, sub) ==
    \E p \in 0..(Len(s) - Len(sub)) : SubSeq(s, p + 1, p + Len(sub)) = sub

RECURSIVE StripDots(_)
StripDots(s) ==
    IF Len(s) > 0 /\ Ch(s, Len(s)) = "." THEN StripDots(SubSeq(s, 1, Len(s) - 1)) ELSE s

\* y is x, or x cut short: the words of y (its trailing dots apart) begin the
\* words of x, in order
TakenFrom(x, y) ==
    LET wx == Split(x)
        wy == Split(StripDots(y))
    IN  \/ y = x
        \/ /\ Len(wy) <= Len(wx)
           /\ \A i \in 1..Len(wy) : StartsWith(wx[i], wy[i])

\* C1: after validate_and_remediate every body field of every slide whose
\* layout resolves and has max_total_body_chars > 0 holds at most
\* max_total_body_chars characters.
C1_BodyWithinBudget ==
    \A n \in Calls : \A i \in Resolved(n) :
        LET out == CallOutput(n).slides[i]
            budget == MaxTotalBodyChars(EntryAt(n, i))
        IN  budget > 0 =>
                \A f \in FieldsOf(out) :
                    IsBodyKey(out.fields[f].key) =>
                        _count_chars(out.fields[f].value, heap) <= budget

\* C2: a second validate_and_remediate on the deck the first one returned
\* returns an equal deck and reports no violation for a slide whose layout
\* resolves.
C2_Idempotent ==
    Len(runs) >= 2 =>
        /\ DerefSlides(CallOutput(2).slides, heap) = DerefSlides(CallOutput(1).slides, heap)
        /\ \A i \in Resolved(2) :
              \A j \in 1..Len(CallReport(2).violations) :
                  CallReport(2).violations[j].slide_id # CallInput(2).slides[i].slide_id

\* the list body fields that hold more bullets than a positive max_bullets:
\* (call, slide position, field position)
OverfullAt(n, i) ==
    {f \in FieldsOf(CallInput(n).slides[i]) :
        LET field == CallInput(n).slides[i].fields[f]
            m == MaxBulletsOf(EntryAt(n, i))
        IN  /\ IsBodyKey(field.key)
            /\ IsList(field.value)
            /\ 0 < m
            /\ m < Len(Items(field.value, heap))}
OverfullFields ==
    UNION {UNION {{<<n, i, f>> : f \in OverfullAt(n, i)} : i \in Resolved(n)} : n \in Calls}

\* C3 at one overfull field
BulletTrimAt(n, i, f) ==
    LET slide == CallInput(n).slides[i]
        out == CallOutput(n).slides[i]
        field_key == slide.fields[f].key
        items == Items(slide.fields[f].value, heap)
        m == MaxBulletsOf(EntryAt(n, i))
        w == MaxWordsPerBullet(EntryAt(n, i))
        c == MaxTotalBodyChars(EntryAt(n, i))
        kept == Items(out.fields[f].value, heap)
    IN  /\ Reported(n, slide, field_key, "TOO_MANY_BULLETS", "BLOCKING")
        /\ out.fields[f].key = field_key
        /\ IsList(out.fields[f].value)
        /\ Len(kept) <= m
        /\ \A j \in 1..Len(kept) : TakenFrom(items[j], kept[j])
        \* nothing else to remedy: exactly the first m bullets, verbatim
        /\ (MaxWords(items) <= w /\ (c = 0 \/ SumLen(Take(items, m)) <= c))
               => kept = Take(items, m)
        /\ out.speaker_notes.kind = "text"
        /\ Contains(out.speaker_notes.text,
                    "[Overflow from " \o field_key \o "]: " \o Join(Drop(items, m), " | "))

\* C3: a list body field with more bullets than max_bullets = m > 0 is
\* reported as a BLOCKING TOO_MANY_BULLETS violation, is cut to at most m
\* bullets taken in order from its first m bullets, and the bullets after the
\* m-th, joined by " | ", are in the speaker notes after "[Overflow from
\* <field>]: ".
C3_BulletTrim == \A c \in OverfullFields : BulletTrimAt(c[1], c[2], c[3])

\* a field of three bullets was cut to its first two, verbatim
C3_Witness ==
    \E c \in OverfullFields :
        /\ Len(Items(CallInput(c[1]).slides[c[2]].fields[c[3]].value, heap)) = 3
        /\ Items(CallOutput(c[1]).slides[c[2]].fields[c[3]].value, heap)
              = Take(Items(CallInput(c[1]).slides[c[2]].fields[c[3]].value, heap), 2)
        /\ Contains(CallOutput(c[1]).slides[c[2]].speaker_notes.text, "[Overflow from ")

\* C4 at one slide that has a title
TitleAt(n, i) ==
    LET slide == CallInput(n).slides[i]
        out == CallOutput(n).slides[i]
        budget == MaxTitleChars(EntryAt(n, i))
        title == FieldOf(slide.fields, "ph_title")
        new_title == FieldOf(out.fields, "ph_title")
        too_long == Reported(n, slide, "ph_title", "TITLE_TOO_LONG", "WARN")
    IN  /\ HasField(out.fields, "ph_title")
        /\ _count_chars(new_title, heap) <= budget
        /\ IF _count_chars(title, heap) > budget
           THEN /\ too_long
                /\ new_title = Str(_truncate_text(PyStr(title, heap), budget))
                /\ StartsWith(PyStr(title, heap), StripDots(new_title.text))
           ELSE /\ ~too_long
                /\ DerefValue(new_title, heap) = DerefValue(title, heap)

\* C4: on a slide whose layout resolves the remediated ph_title holds at most
\* max_title_chars characters; a longer title is reported as a WARN
\* TITLE_TOO_LONG violation and replaced by its truncation, a title within
\* the budget is not reported and not changed.
C4_TitleWithinBudget ==
    \A n \in Calls : \A i \in Resolved(n) :
        HasField(CallInput(n).slides[i].fields, "ph_title") => TitleAt(n, i)

\* the 8-character title "aaa aaaa" was cut to "aaa..." under a budget of 7
C4_Witness ==
    \E n \in Calls : \E i \in Resolved(n) :
        /\ HasField(CallInput(n).slides[i].fields, "ph_title")
        /\ FieldOf(CallInput(n).slides[i].fields, "ph_title") = Str("aaa aaaa")
        /\ FieldOf(CallOutput(n).slides[i].fields, "ph_title") = Str("aaa...")

ViolationsOfSlide(n, slide_id) ==
    LET OfSlide(v) == v.slide_id = slide_id
    IN  SelectSeq(CallReport(n).violations, OfSlide)

\* C5 at a slide whose layout is not in the catalog
UnknownLayoutAt(n, i) ==
    LET slide == CallInput(n).slides[i]
        found == ViolationsOfSlide(n, slide.slide_id)
    IN  /\ Len(found) = 1
        /\ found[1].severity = "BLOCKING"
        /\ found[1].layout_id = slide.layout_id
        /\ Contains(found[1].recommended_action, slide.layout_id)
        /\ CallOutput(n).slides[i] = slide
        /\ DerefSlide(CallOutput(n).slides[i], heap) = DerefSlide(slide, heap)

\* the other slides are processed: each has its slide in the returned deck,
\* and one with too many bullets is reported and cut
OthersProcessed(n) ==
    /\ Len(CallOutput(n).slides) = Len(CallInput(n).slides)
    /\ \A i \in Positions(n) : CallOutput(n).slides[i].slide_id = CallInput(n).slides[i].slide_id
    /\ \A c \in OverfullFields :
          c[1] = n =>
              /\ Reported(n, CallInput(n).slides[c[2]],
                          CallInput(n).slides[c[2]].fields[c[3]].key,
                          "TOO_MANY_BULLETS", "BLOCKING")
              /\ Len(Items(CallOutput(n).slides[c[2]].fields[c[3]].value, heap))
                    <= MaxBulletsOf(EntryAt(n, c[2]))

\* C5: a slide whose layout_id is not in the catalog gets exactly one
\* violation, BLOCKING and carrying the layout_id, and is returned as it is;
\* every other slide of the deck is still validated and remediated.
C5_UnknownLayout ==
    \A n \in Calls :
        (Positions(n) \ Resolved(n) # {}) =>
            /\ \A i \in Positions(n) \ Resolved(n) : UnknownLayoutAt(n, i)
            /\ OthersProcessed(n)

\* the unknown slide came first and the overfull slide after it was cut
C5_Witness ==
    \E n \in Calls :
        /\ 1 \in Positions(n) \ Resolved(n)
        /\ \E c \in OverfullFields : c[1] = n /\ c[2] = 2
        /\ Len(CallReport(n).violations) > 1

\* C8: a call of validate_and_remediate leaves the deck it is given, and
\* every list the deck's slides hold, as they were, and the deck it returns is
\* another object than the one it was given.
C8_InputNotMutated ==
    [][Len(runs') > Len(runs) =>
          LET input == IF runs = <<>> THEN deck_in ELSE runs[Len(runs)].deck
          IN  /\ DerefSlides(input.slides, heap') = DerefSlides(input.slides, heap)
              /\ deck_in' = deck_in
              /\ \A n \in Calls : runs'[n] = runs[n]
              /\ runs'[Len(runs')].deck.oid # input.oid]_vars

\* the positions (call, slide, field) of the list fields that lost bullets to
\* the notes while the list handed in still holds them
PoppedFields ==
    {c \in UNION {UNION {{<<n, i, f>> : f \in FieldsOf(CallInput(n).slides[i])} :
                            i \in Resolved(n)} : n \in Calls} :
        LET before == CallInput(c[1]).slides[c[2]].fields[c[3]].value
            after == CallOutput(c[1]).slides[c[2]].fields[c[3]].value
        IN  /\ IsList(before)
            /\ IsList(after)
            /\ Len(Items(after, heap)) < Len(Items(before, heap))
            /\ Contains(CallOutput(c[1]).slides[c[2]].speaker_notes.text,
                        "[Moved from " \o CallInput(c[1]).slides[c[2]].fields[c[3]].key)}

C8_Witness == PoppedFields # {}

\* the (call, slide, field) positions of the body fields of the slides whose
\* layout resolves
BodyFieldsSeen ==
    UNION {UNION {{<<n, i, f>> : f \in {g \in FieldsOf(CallInput(n).slides[i]) :
                                          IsBodyKey(CallInput(n).slides[i].fields[g].key)}} :
                     i \in Resolved(n)} : n \in Calls}

SeenSlide(c) == CallInput(c[1]).slides[c[2]]
SeenKey(c) == SeenSlide(c).fields[c[3]].key
SeenValue(c) == SeenSlide(c).fields[c[3]].value

\* the markers _remediate_slide accumulates for slide i of call n
MarkersAt(n, i) ==
    LET slide == CallInput(n).slides[i]
    IN  RemediateBodyFields([fields |-> slide.fields, notes |-> <<>>, heap |-> heap],
                            BodyFieldKeys(slide.fields),
                            ViolationsOfSlide(n, slide.slide_id), EntryAt(n, i)).notes

\* the notes of a slide as text: the text, the JSON of a map, nothing
NotesAsText(speaker_notes) ==
    IF speaker_notes.kind = "text" THEN speaker_notes.text
    ELSE IF speaker_notes.kind = "map" THEN JsonDumps(speaker_notes.entries)
    ELSE ""

\* C17: a slide that goes through remediation gets, when a marker was
\* produced, its original notes text, then the REMEDIATION OVERFLOW banner,
\* then the markers in the order they were produced; when no marker was
\* produced its speaker_notes is the input value itself, be it a text, a map
\* or absent.
C17_NotesRebuild ==
    \A n \in Calls : \A i \in Resolved(n) :
        LET before == CallInput(n).slides[i]
            after == CallOutput(n).slides[i]
            markers == MarkersAt(n, i)
            original == NotesAsText(before.speaker_notes)
        IN  ViolationsOfSlide(n, before.slide_id) # <<>> =>
                IF markers # <<>>
                THEN /\ after.speaker_notes.kind = "text"
                     /\ after.speaker_notes.text =
                            original
                            \o (IF original = "" THEN "" ELSE "\n\n---\n")
                            \o "[REMEDIATION OVERFLOW]\n"
                            \o Join(markers, "\n")
                ELSE after.speaker_notes = before.speaker_notes

\* C19: on a layout whose max_bullets is 0 every non-empty body field is
\* reported as TOO_MANY_BULLETS, and on one whose max_total_body_chars is 0
\* as TOTAL_BODY_CHARS.
C19_ZeroBudget ==
    \A c \in BodyFieldsSeen :
        _count_chars(SeenValue(c), heap) > 0 =>
            /\ MaxBulletsOf(EntryAt(c[1], c[2])) = 0 =>
                  Reported(c[1], SeenSlide(c), SeenKey(c), "TOO_MANY_BULLETS", "BLOCKING")
            /\ MaxTotalBodyChars(EntryAt(c[1], c[2])) = 0 =>
                  Reported(c[1], SeenSlide(c), SeenKey(c), "TOTAL_BODY_CHARS", "BLOCKING")

\* the least k with k * a >= c
CeilDiv(c, a) == CHOOSE k \in 0..c : k * a >= c /\ (k = 0 \/ (k - 1) * a < c)

\* the BODY_LINE_BUDGET violations reported for a body field
LineBudgetReports(c) ==
    LET About(v) == /\ v.field_key = SeenKey(c)
                    /\ v.violation_type = "BODY_LINE_BUDGET"
    IN  SelectSeq(ViolationsOfSlide(c[1], SeenSlide(c).slide_id), About)

\* C20: with avg_chars_per_line = a > 0 the estimate of a field of c
\* characters is the ceiling of c / a, and a body field gets a WARN
\* BODY_LINE_BUDGET violation, which quotes that estimate, exactly when the
\* estimate exceeds a positive body_line_budget.
C20_LineEstimate ==
    \A c \in BodyFieldsSeen :
        LET a == AvgCharsPerLine(EntryAt(c[1], c[2]))
            budget == BodyLineBudget(EntryAt(c[1], c[2]))
            lines == CeilDiv(_count_chars(SeenValue(c), heap), a)
            found == LineBudgetReports(c)
        IN  a > 0 =>
                IF budget > 0 /\ lines > budget
                THEN /\ Len(found) = 1
                     /\ found[1].severity = "WARN"
                     /\ found[1].recommended_action =
                            "Content exceeds line budget (" \o ToString(lines) \o " > "
                                \o ToString(budget) \o ")"
                ELSE found = <<>>

\* 5 characters at 3 per line are 2 lines, over a budget of 1, and 3
\* characters at 3 per line are 1 line, within it
C20_Witness ==
    \E c, d \in BodyFieldsSeen :
        /\ AvgCharsPerLine(EntryAt(c[1], c[2])) = 3
        /\ BodyLineBudget(EntryAt(c[1], c[2])) = 1
        /\ _count_chars(SeenValue(c), heap) = 5
        /\ Len(LineBudgetReports(c)) = 1
        /\ _count_chars(SeenValue(d), heap) = 3
        /\ LineBudgetReports(d) = <<>>

\* the text of a scalar or of a one-bullet list, <<>> for any other value
OneText(value) ==
    IF IsStr(value) THEN <<value.text>>
    ELSE IF Len(Items(value, heap)) = 1 THEN <<Items(value, heap)[1]>>
    ELSE <<>>

\* the body fields delivered as a scalar or as a one-bullet list
OneTextFields == {c \in BodyFieldsSeen : OneText(SeenValue(c)) # <<>>}

SeenOutSlide(c) == CallOutput(c[1]).slides[c[2]]
SeenOutValue(c) == SeenOutSlide(c).fields[c[3]].value

\* the text step (b) leaves of such a field
CondensedText(c) ==
    IF Reported(c[1], SeenSlide(c), SeenKey(c), "WORDS_PER_BULLET", "WARN")
    THEN _shorten_bullet(OneText(SeenValue(c))[1], MaxWordsPerBullet(EntryAt(c[1], c[2])))
    ELSE OneText(SeenValue(c))[1]

\* step (c) cut the field to the character budget
TruncatedInStepC(c) ==
    LET budget == MaxTotalBodyChars(EntryAt(c[1], c[2]))
    IN  /\ budget > 0
        /\ Len(CondensedText(c)) > budget
        /\ OneText(SeenOutValue(c)) = <<_truncate_text(CondensedText(c), budget)>>

\* C21: when step (c) truncates a scalar or one-bullet body field, the notes
\* hold "[Full text from <field>]: " followed by the field's text as the input
\* deck delivered it, also when step (b) condensed it; a field that was not
\* truncated gets no such marker (its notes name it only if the input notes
\* already did).
C21_FullTextIsOriginal ==
    \A c \in OneTextFields :
        LET notes == NotesAsText(SeenOutSlide(c).speaker_notes)
            before == NotesAsText(SeenSlide(c).speaker_notes)
            head == "[Full text from " \o SeenKey(c) \o "]: "
        IN  IF TruncatedInStepC(c)
            THEN Contains(notes, head \o OneText(SeenValue(c))[1])
            ELSE Contains(notes, head) => Contains(before, head)

\* the bullets of a list body field after steps (a) and (b), computed from the
\* input field and the report
PostDrop(c) ==
    LET items == Items(SeenValue(c), heap)
        max_bullets == MaxBulletsOf(EntryAt(c[1], c[2]))
    IN  IF /\ max_bullets > 0
           /\ Len(items) > max_bullets
           /\ Reported(c[1], SeenSlide(c), SeenKey(c), "TOO_MANY_BULLETS", "BLOCKING")
        THEN Take(items, max_bullets)
        ELSE items
PostCondense(c) ==
    IF Reported(c[1], SeenSlide(c), SeenKey(c), "WORDS_PER_BULLET", "WARN")
    THEN [j \in 1..Len(PostDrop(c)) |->
             _shorten_bullet(PostDrop(c)[j], MaxWordsPerBullet(EntryAt(c[1], c[2])))]
    ELSE PostDrop(c)

\* the list body fields that reach step (c) with several bullets over a
\* positive character budget
MoveFields ==
    {c \in BodyFieldsSeen :
        /\ IsList(SeenValue(c))
        /\ MaxTotalBodyChars(EntryAt(c[1], c[2])) > 0
        /\ Len(PostCondense(c)) > 1
        /\ SumLen(PostCondense(c)) > MaxTotalBodyChars(EntryAt(c[1], c[2]))}

\* "[Moved from <field>]: <bullet>" for bullets hi, hi-1, .. lo of a list, one
\* per line
RECURSIVE MovedMarkers(_, _, _, _)
MovedMarkers(field_key, bullets, hi, lo) ==
    IF hi < lo THEN ""
    ELSE "[Moved from " \o field_key \o "]: " \o bullets[hi]
            \o (IF hi > lo THEN "\n" \o MovedMarkers(field_key, bullets, hi - 1, lo) ELSE "")

\* C22: a list body field that after drop and condense holds several bullets
\* and more than max_total_body_chars > 0 characters loses bullets from the
\* end only, one at a time, until it fits or one bullet is left: the bullets
\* kept are a prefix of the post-condense list, no bullet more than needed is
\* removed, and the notes hold one "[Moved from <field>]" marker per removed
\* bullet, last bullet first.
C22_MoveFromTheEnd ==
    \A c \in MoveFields :
        LET post == PostCondense(c)
            budget == MaxTotalBodyChars(EntryAt(c[1], c[2]))
            kept == Items(SeenOutValue(c), heap)
            k == Len(kept)
        IN  /\ IsList(SeenOutValue(c))
            /\ 1 <= k /\ k < Len(post)
            /\ kept = Take(post, k)
            /\ k = 1 \/ SumLen(kept) <= budget
            /\ SumLen(Take(post, k + 1)) > budget
            /\ Contains(NotesAsText(SeenOutSlide(c).speaker_notes),
                        MovedMarkers(SeenKey(c), post, Len(post), k + 1))

\* a field of three bullets lost two of them to the notes
C22_Witness ==
    \E c \in MoveFields :
        /\ Len(Items(SeenOutValue(c), heap)) + 2 <= Len(PostCondense(c))
        /\ Len(PostCondense(c)) <= 3

\* the (call, slide, field) positions of the titles of the slides whose layout
\* resolves
TitlesSeen ==
    UNION {UNION {{<<n, i, f>> : f \in {g \in FieldsOf(CallInput(n).slides[i]) :
                                          CallInput(n).slides[i].fields[g].key = "ph_title"}} :
                     i \in Resolved(n)} : n \in Calls}

\* a body field is returned as it was handed in
Untouched(c) ==
    DerefValue(SeenOutValue(c), heap) = DerefValue(SeenValue(c), heap)

\* the two knobs for which 0 switches the check off
ZeroSkipsBulletAndCharChecks ==
    \A c \in BodyFieldsSeen :
        /\ MaxBulletsOf(EntryAt(c[1], c[2])) = 0 =>
              ~Reported(c[1], SeenSlide(c), SeenKey(c), "TOO_MANY_BULLETS", "BLOCKING")
        /\ MaxTotalBodyChars(EntryAt(c[1], c[2])) = 0 =>
              ~Reported(c[1], SeenSlide(c), SeenKey(c), "TOTAL_BODY_CHARS", "BLOCKING")
        /\ (/\ MaxBulletsOf(EntryAt(c[1], c[2])) = 0
            /\ MaxTotalBodyChars(EntryAt(c[1], c[2])) = 0
            /\ ~Reported(c[1], SeenSlide(c), SeenKey(c), "WORDS_PER_BULLET", "WARN"))
              => Untouched(c)

ZeroTitleBudgetEnforced ==
    \A c \in TitlesSeen :
        (MaxTitleChars(EntryAt(c[1], c[2])) = 0 /\ _count_chars(SeenValue(c), heap) > 0) =>
            Reported(c[1], SeenSlide(c), "ph_title", "TITLE_TOO_LONG", "WARN")

ZeroWordBudgetEnforced ==
    \A c \in BodyFieldsSeen :
        (/\ MaxWordsPerBullet(EntryAt(c[1], c[2])) = 0
         /\ _max_words_in_bullet(SeenValue(c), heap) > 0) =>
            Reported(c[1], SeenSlide(c), SeenKey(c), "WORDS_PER_BULLET", "WARN")

ZeroLineBudgetEnforced ==
    \A c \in BodyFieldsSeen :
        (BodyLineBudget(EntryAt(c[1], c[2])) = 0 /\ _count_chars(SeenValue(c), heap) > 0) =>
            Reported(c[1], SeenSlide(c), SeenKey(c), "BODY_LINE_BUDGET", "WARN")

\* C24: a value of 0 switches a check off for max_bullets and
\* max_total_body_chars only (no violation, the field is left alone); a
\* max_title_chars, max_words_per_bullet or body_line_budget of 0 is a limit
\* of zero, which every non-empty content violates.
C24_ZeroDisablesTwoKnobs ==
    /\ ZeroSkipsBulletAndCharChecks
    /\ ZeroTitleBudgetEnforced
    /\ ZeroWordBudgetEnforced
    /\ ZeroLineBudgetEnforced

\* the bullets of a body field: the items of a list, a scalar as one bullet
BulletsOf(value) == IF IsList(value) THEN Items(value, heap) ELSE <<value.text>>

\* the bullets steps (a) left, for a list or a scalar
DroppedTo(c) == IF IsList(SeenValue(c)) THEN PostDrop(c) ELSE <<SeenValue(c).text>>

\* a bullet cut to its first max_words words and "...", or left alone when it
\* has no more words than that
CutToWords(bullet, max_words) ==
    IF Len(Split(bullet)) > max_words
    THEN Join(Take(Split(bullet), max_words), " ") \o "..."
    ELSE bullet

\* the body fields reported with WORDS_PER_BULLET
WordyFields ==
    {c \in BodyFieldsSeen : Reported(c[1], SeenSlide(c), SeenKey(c), "WORDS_PER_BULLET", "WARN")}

\* step (c) leaves the field alone: no character budget, or the condensed
\* bullets fit it
FitsAfterCondense(c) ==
    LET budget == MaxTotalBodyChars(EntryAt(c[1], c[2]))
        max_words == MaxWordsPerBullet(EntryAt(c[1], c[2]))
    IN  \/ budget = 0
        \/ SumLen([j \in 1..Len(DroppedTo(c)) |-> CutToWords(DroppedTo(c)[j], max_words)])
              <= budget

CondensedAsStated(c) ==
    LET max_words == MaxWordsPerBullet(EntryAt(c[1], c[2]))
        out == BulletsOf(SeenOutValue(c))
    IN  FitsAfterCondense(c) =>
            out = [j \in 1..Len(DroppedTo(c)) |-> CutToWords(DroppedTo(c)[j], max_words)]

WithinWordBudget(c) ==
    \A j \in 1..Len(BulletsOf(SeenOutValue(c))) :
        Len(Split(BulletsOf(SeenOutValue(c))[j])) <= MaxWordsPerBullet(EntryAt(c[1], c[2]))

DroppedUncondensed(c) ==
    (IsList(SeenValue(c)) /\ Len(PostDrop(c)) < Len(Items(SeenValue(c), heap))) =>
        Contains(NotesAsText(SeenOutSlide(c).speaker_notes),
                 "[Overflow from " \o SeenKey(c) \o "]: "
                    \o Join(Drop(Items(SeenValue(c), heap), Len(PostDrop(c))), " | "))

\* C25: a body field reported with WORDS_PER_BULLET comes back with at most
\* max_words_per_bullet words in every bullet; the condense step works on the
\* bullets the drop step left, leaves a bullet within the word budget alone and
\* cuts any other to its first max_words_per_bullet words and "..."; the
\* bullets dropped in step (a) are in the notes as they were.
C25_Condense ==
    \A c \in WordyFields :
        /\ WithinWordBudget(c)
        /\ CondensedAsStated(c)
        /\ DroppedUncondensed(c)

\* the field keys of a slide, in the order of its fields map
KeysOf(slide) == [f \in FieldsOf(slide) |-> slide.fields[f].key]

\* a field remediation may rewrite
IsRemediableKey(field_key) == field_key = "ph_title" \/ IsBodyKey(field_key)

\* C28 at slide i of call n
FrameAt(n, i) ==
    LET before == CallInput(n).slides[i]
        after == CallOutput(n).slides[i]
    IN  /\ after.slide_id = before.slide_id
        /\ after.layout_id = before.layout_id
        /\ after.asset_refs = before.asset_refs
        /\ after.constraints_override = before.constraints_override
        /\ KeysOf(after) = KeysOf(before)
        /\ \A f \in FieldsOf(before) :
              ~IsRemediableKey(before.fields[f].key) =>
                  DerefValue(after.fields[f].value, heap)
                     = DerefValue(before.fields[f].value, heap)
        /\ ViolationsOfSlide(n, before.slide_id) = <<>> => after = before

\* C28: validate_and_remediate returns a deck with the deck_id, run_id,
\* template_id, title, subtitle and global_constraints of its input and as
\* many slides in the same order; every slide keeps its slide_id, layout_id,
\* asset_refs, constraints_override, the keys of its fields and the value of
\* every field that is neither ph_title nor a body field, and a slide without
\* a violation is the input slide.
C28_Frame ==
    \A n \in Calls :
        /\ CallOutput(n).deck_id = CallInput(n).deck_id
        /\ CallOutput(n).run_id = CallInput(n).run_id
        /\ CallOutput(n).template_id = CallInput(n).template_id
        /\ CallOutput(n).title = CallInput(n).title
        /\ CallOutput(n).subtitle = CallInput(n).subtitle
        /\ CallOutput(n).global_constraints = CallInput(n).global_constraints
        /\ Len(CallOutput(n).slides) = Len(CallInput(n).slides)
        /\ \A i \in Positions(n) : FrameAt(n, i)

\* a deck of two slides: the first, with a footer and an asset reference, had
\* its title and a body field rewritten, the second came back as it was
C28_Witness ==
    \E n \in Calls :
        /\ Len(CallInput(n).slides) = 2
        /\ ViolationsOfSlide(n, "s1") # <<>>
        /\ CallInput(n).slides[1].slide_id = "s1"
        /\ HasField(CallInput(n).slides[1].fields, "ph_footer")
        /\ DerefSlide(CallOutput(n).slides[1], heap) # DerefSlide(CallInput(n).slides[1], heap)
        /\ CallInput(n).slides[2].slide_id = "f"
        /\ ViolationsOfSlide(n, "f") = <<>>

\* the places of s where a marker may start
BracketsOf(s) == {p \in 0..(Len(s) - 1) : Ch(s, p + 1) = "["}

\* the number of the places among starts where sub stands in s
CountOcc(s, starts, sub) ==
    Cardinality({p \in starts :
                    /\ p + Len(sub) <= Len(s)
                    /\ SubSeq(s, p + 1, p + Len(sub)) = sub})

\* the markers of each kind the call added to the notes of a field's slide
AddedMarkers(c) ==
    LET before == NotesAsText(SeenSlide(c).speaker_notes)
        after == NotesAsText(SeenOutSlide(c).speaker_notes)
        at_before == BracketsOf(before)
        at_after == BracketsOf(after)
        added(kind) ==
            LET head == "[" \o kind \o " from " \o SeenKey(c) \o "]: "
            IN  CountOcc(after, at_after, head) - CountOcc(before, at_before, head)
    IN  IF after = before THEN [Overflow |-> 0, Moved |-> 0]
        ELSE [Overflow |-> added("Overflow"), Moved |-> added("Moved")]

ListFieldsSeen == {c \in BodyFieldsSeen : IsList(SeenValue(c))}

\* the bullets step (a) dropped from a list field, and those step (c) moved
DroppedBullets(c) == Drop(Items(SeenValue(c), heap), Len(PostDrop(c)))
MovedCount(c) == Len(PostCondense(c)) - Len(Items(SeenOutValue(c), heap))

\* C29: a list body field comes back as a list of no more bullets, and every
\* bullet it lost is in the slide's notes: the bullets dropped in step (a), as
\* the input held them, in one "[Overflow from <field>]" marker, the bullets
\* moved in step (c), as they stood when moved, in one "[Moved from <field>]"
\* marker each; the bullets kept and the bullets recorded in the markers the
\* call added are as many as the input bullets.
C29_NoBulletLost ==
    \A c \in ListFieldsSeen :
        LET notes == NotesAsText(SeenOutSlide(c).speaker_notes)
            kept == Items(SeenOutValue(c), heap)
            post == PostCondense(c)
            dropped == DroppedBullets(c)
            moved == Len(post) - Len(kept)
            added == AddedMarkers(c)
            markers == added.Moved
        IN  /\ IsList(SeenOutValue(c))
            /\ moved >= 0
            /\ dropped # <<>> =>
                  Contains(notes, "[Overflow from " \o SeenKey(c) \o "]: "
                                     \o Join(dropped, " | "))
            /\ added.Overflow = (IF dropped # <<>> THEN 1 ELSE 0)
            /\ moved > 0 =>
                  Contains(notes, MovedMarkers(SeenKey(c), post, Len(post), Len(kept) + 1))
            /\ markers = moved
            /\ Len(kept) + Len(dropped) + markers = Len(Items(SeenValue(c), heap))

\* a field of three bullets lost one to the drop step and one to the move step
C29_Witness ==
    \E c \in ListFieldsSeen :
        /\ Len(Items(SeenValue(c), heap)) = 3
        /\ Len(DroppedBullets(c)) = 1
        /\ MovedCount(c) = 1
        /\ AddedMarkers(c) = [Overflow |-> 1, Moved |-> 1]

(***************************************************************************)
(* TruncSpec: the truncation primitive on every text over a two-letter     *)
(* alphabet and every small budget.                                        *)
(***************************************************************************)
Alphabet == {"a", " "}

RECURSIVE TextsOfLen(_)
TextsOfLen(n) ==
    IF n = 0 THEN {""}
    ELSE {s \o c : s \in TextsOfLen(n - 1), c \in Alphabet}

AllTexts == UNION {TextsOfLen(n) : n \in 0..MaxTextLen}

\* texts of 15 characters whose last blank within the cut is at, before and
\* after 70% of the cut of a budget of 13
WideTexts == {"aaaaaaa aaaaaaa", "aaaaaaaa aaaaaa", "aaaaaa aaaaaaaa", "aaaaaaa  aaaaaa"}

TruncInit ==
    /\ t_text \in AllTexts \cup WideTexts
    /\ t_max \in 0..MaxBudget \cup {WideBudget}
    /\ t_res = None
    /\ catalog = <<>>
    /\ heap = <<>>
    /\ deck_in = None
    /\ runs = <<>>
    /\ deck_b = None
    /\ runs_b = <<>>
    /\ NoTemplate
    /\ RenderIdle
    /\ DriftIdle
    /\ CliIdle

Truncate ==
    /\ t_res = None
    /\ t_res' = _truncate_text(t_text, t_max)
    /\ UNCHANGED <<t_text, t_max>>
    /\ UNCHANGED <<pfVars, envVars, rnVars, drVars, cliVars>>

TruncNext == Truncate

TruncSpec == TruncInit /\ [][TruncNext]_vars

\* C10 as stated: unchanged within the budget, never longer than the budget,
\* ending in "..." whenever cut
C10_AlwaysEllipsis ==
    t_res # None =>
        /\ Len(t_text) <= t_max => t_res = t_text
        /\ Len(t_res) <= t_max
        /\ Len(t_text) > t_max => EndsWithEllipsis(t_res)

\* C10: _truncate_text(t, N) with N >= 0 returns t when len(t) <= N and never
\* more than N characters; when len(t) > N it ends in "..." if N > 3 and is
\* the first N characters of t if N <= 3.
C10_TruncateBound ==
    t_res # None =>
        /\ Len(t_text) <= t_max => t_res = t_text
        /\ Len(t_res) <= t_max
        /\ (Len(t_text) > t_max /\ t_max > 3) => EndsWithEllipsis(t_res)
        /\ (Len(t_text) > t_max /\ t_max <= 3) => t_res = Prefix(t_text, t_max)

\* a text of 8 characters cut to "aaa..." under a budget of 7
C10_Witness == t_text = "aaa aaaa" /\ t_max = 7 /\ t_res = "aaa..."

\* the first N-3 characters of the text and the 0-based index of their last
\* blank
CutText == Prefix(t_text, t_max - 3)
LastBlank == RFindSpace(CutText)

C23_AtSeventyPercent ==
    /\ t_res # None /\ Len(t_text) > t_max /\ t_max > 3
    /\ LastBlank >= 0
    /\ 10 * LastBlank = 7 * (t_max - 3)
    /\ t_res = RStrip(CutText) \o "..."

(***************************************************************************)
(* RenderSpec: Renderer.render on a deck, against a template of one master *)
(* with two layouts.                                                       *)
(***************************************************************************)
LayoutShape(is_placeholder, idx, ph_type, elem, has_text_frame, descr) ==
    [is_placeholder |-> is_placeholder, idx |-> idx, ph_type |-> ph_type, elem |-> elem,
     has_text_frame |-> has_text_frame, descr |-> descr]

TitleAndContent ==
    [name |-> "Title and Content",
     shapes |-> <<LayoutShape(TRUE, 0, "title", "sp", TRUE, "ph_title"),
                  LayoutShape(TRUE, 1, "body", "sp", TRUE, "ph_body"),
                  LayoutShape(TRUE, 10, "dt", "sp", TRUE, "ph_date"),
                  LayoutShape(FALSE, 0, "none", "pic", FALSE, "logo")>>]

PictureLayout ==
    [name |-> "Picture",
     shapes |-> <<LayoutShape(TRUE, 0, "title", "sp", TRUE, "ph_title"),
                  LayoutShape(TRUE, 13, "pic", "sp", TRUE, "ph_pic"),
                  LayoutShape(TRUE, 1, "body", "sp", TRUE, "")>>]

Templates ==
    {[masters |-> <<<<TitleAndContent, PictureLayout>>>>, example_slides |-> 2,
      clones_descr |-> c] : c \in BOOLEAN}

CatalogEntry(layout_id, master_index, layout_index, template_layout_name) ==
    [layout_id |-> layout_id, master_index |-> master_index,
     layout_index |-> layout_index, template_layout_name |-> template_layout_name]

\* "L3" points outside the template
RenderCatalog ==
    ("L1" :> CatalogEntry("L1", 0, 0, "Title and Content"))
    @@ ("L2" :> CatalogEntry("L2", 0, 1, "Picture"))
    @@ ("L3" :> CatalogEntry("L3", 0, 2, "Gone"))

AssetRef(asset_type, asset_id, target_field_key) ==
    [asset_type |-> asset_type, asset_id |-> asset_id, target_field_key |-> target_field_key]

\* two.png is indexed but is not on disk
RenderIcons == ("i1" :> "one.png") @@ ("i2" :> "two.png")
RenderFiles == {"icons/png/one.png", "root/assets/pic.png"}

TitleField == Field("ph_title", Str("T"))

RenderSlides ==
    { DeckSlide("r1", "L1",
                <<TitleField, Field("ph_body", InlineList(<<"a", "b b b">>)),
                  Field("ph_missing", Str("x"))>>,
                TextNotes("n"), <<>>),
      DeckSlide("r2", "L2", <<TitleField>>, MapNotes(<<Field("k", "b"), Field("a", "a")>>),
                <<AssetRef("icon", "i1", "ph_pic")>>),
      DeckSlide("r3", UnknownLayout, <<TitleField>>, NoNotes, <<>>),
      DeckSlide("r4", "L1", <<TitleField>>, NoNotes, <<AssetRef("icon", "i1", None)>>),
      DeckSlide("r5", "L1", <<TitleField>>, NoNotes, <<AssetRef("icon", "i1", "ph_pic")>>),
      DeckSlide("r6", "L2", <<TitleField>>, NoNotes, <<AssetRef("icon", "nope", "ph_pic")>>),
      DeckSlide("r7", "L2", <<TitleField>>, NoNotes,
                <<AssetRef("image", "gone.png", "ph_pic")>>),
      DeckSlide("r8", "L2", <<TitleField>>, NoNotes,
                <<AssetRef("image", "pic.png", "ph_title")>>),
      DeckSlide("r9", "L2", <<TitleField>>, NoNotes, <<AssetRef("icon", "i2", "ph_pic")>>),
      DeckSlide("r10", "L3", <<TitleField>>, NoNotes, <<>>),
      DeckSlide("r11", "L2", <<TitleField>>, NoNotes,
                <<AssetRef("image", "/abs/gone.png", "ph_pic")>>),
      DeckSlide("r12", "L2", <<TitleField>>, NoNotes,
                <<AssetRef("icon", "i1", "ph_pic"),
                  AssetRef("image", "pic.png", "ph_pic")>>) }

RenderDecks == {q \in SlideSeqs(RenderSlides, MaxRenderSlides) : DistinctIds(q)}

RenderInit ==
    /\ catalog = RenderCatalog
    /\ \E q \in RenderDecks :
          /\ deck_in = LoadDeck(q).deck
          /\ heap = LoadDeck(q).heap
    /\ runs = <<>>
    /\ deck_b = None
    /\ runs_b = <<>>
    /\ t_text = "" /\ t_max = 0 /\ t_res = None
    /\ template \in Templates
    /\ icon_index = RenderIcons
    /\ fs_files = RenderFiles
    /\ RenderIdle
    /\ DriftIdle
    /\ CliIdle

RenderCall == RenderBegin(deck_in)

RenderNext == RenderCall \/ RenderSlideDone \/ RenderSlideRaise \/ RenderSave

RenderSpec == RenderInit /\ [][RenderNext]_vars

RenderEnded == r_pc \in {"returned", "raised"}

\* the positions of the slides of the rendered deck whose layout_id is not in
\* the catalog
UnknownPositions ==
    {i \in 1..Len(r_deck.slides) : ~Resolves(catalog, r_deck.slides[i].layout_id)}

FirstUnknown == CHOOSE i \in UnknownPositions : \A j \in UnknownPositions : i <= j

\* C6 as stated: whatever the position of a slide of unknown layout_id,
\* render raises an error that names that layout_id, handles no later slide,
\* saves nothing and returns nothing
C6_UnknownLayoutNamed ==
    RenderEnded =>
        \A i \in UnknownPositions :
            /\ r_pc = "raised"
            /\ Contains(r_error, r_deck.slides[i].layout_id)
            /\ r_done < i
            /\ Len(prs) < i
            /\ output_file = NoFile
            /\ r_result = NoResult

\* C6: when a slide of the deck, at any position, has a layout_id that is
\* not in the catalog, render raises, handles no slide after the first such
\* slide, saves nothing and returns nothing; the error names that layout_id
\* when the loop got as far as that slide (no earlier slide raised).
C6_UnknownLayoutAborts ==
    (RenderEnded /\ UnknownPositions # {}) =>
        /\ r_pc = "raised"
        /\ r_done < FirstUnknown
        /\ Len(prs) < FirstUnknown
        /\ output_file = NoFile
        /\ saves = 0
        /\ r_result = NoResult
        /\ r_done = FirstUnknown - 1 =>
              /\ r_error = "Unknown layout_id: " \o r_deck.slides[FirstUnknown].layout_id
              /\ Len(prs) = FirstUnknown - 1

\* the middle slide of three has the unknown layout; render raised there
C6_Witness ==
    /\ r_pc = "raised"
    /\ Len(r_deck.slides) = 3
    /\ UnknownPositions = {2}
    /\ r_done = 1
    /\ Len(prs) = 1
    /\ Contains(r_error, UnknownLayout)

\* slide i of the presentation is slide i of the deck with its texts, its
\* pictures, its notes and its RenderMap entry
Materialized(i) ==
    LET slide_spec == r_deck.slides[i]
        slide == prs[i]
        Pictures(shape) == shape.picture # None
        Bound(j) ==
            (/\ slide.shapes[j].descr # ""
             /\ HasField(slide_spec.fields, slide.shapes[j].descr)
             /\ slide.shapes[j].has_text_frame)
                => slide.shapes[j].paragraphs
                      = (IF IsList(FieldOf(slide_spec.fields, slide.shapes[j].descr))
                         THEN Items(FieldOf(slide_spec.fields, slide.shapes[j].descr), heap)
                         ELSE <<FieldOf(slide_spec.fields, slide.shapes[j].descr).text>>)
    IN  /\ slide.slide_id = slide_spec.slide_id
        /\ slide.layout_name
              = template.masters[catalog[slide_spec.layout_id].master_index + 1]
                                [catalog[slide_spec.layout_id].layout_index + 1].name
        /\ \A j \in 1..Len(slide.shapes) : Bound(j)
        /\ Len(SelectSeq(slide.shapes, Pictures)) = Len(slide_spec.asset_refs)
        /\ slide.notes = NotesText(slide_spec.speaker_notes)
        /\ \E k \in 1..Len(render_map) :
              /\ render_map[k].slide_id = slide_spec.slide_id
              /\ render_map[k].slide_index = i - 1

\* C7: render writes the output document at most once, and only when every
\* slide of the deck has been instantiated, bound, given its assets and notes
\* and recorded in the RenderMap; a render that raised has written nothing.
C7_RenderAtomic ==
    [][/\ saves' <= 1
       /\ (output_file' # output_file \/ saves' # saves) =>
              /\ saves = 0
              /\ output_file = NoFile
              /\ r_pc = "slides"
              /\ Len(prs) = Len(r_deck.slides)
              /\ \A i \in 1..Len(r_deck.slides) : Materialized(i)
              /\ output_file' = Document(prs)
       /\ r_pc' = "raised" => (output_file' = NoFile /\ saves' = 0)]_vars

\* a document of three slides was saved, one picture in a placeholder and
\* one over a placeholder
C7_Witness ==
    /\ r_pc = "returned"
    /\ saves = 1
    /\ output_file.kind = "pptx"
    /\ Len(output_file.slides) = 3
    /\ \E i, j \in 1..3 :
          /\ Len(r_deck.slides[i].asset_refs) = 1
          /\ Len(r_deck.slides[j].asset_refs) = 1
          /\ i # j

\* the layout a slide of the rendered deck is instantiated from
LayoutOf(slide_spec) ==
    template.masters[catalog[slide_spec.layout_id].master_index + 1]
                    [catalog[slide_spec.layout_id].layout_index + 1]

\* the field keys carried by the placeholders among shapes
PlaceholderKeys(shapes) ==
    {shapes[j].descr : j \in {k \in 1..Len(shapes) :
                                 /\ shapes[k].is_placeholder
                                 /\ shapes[k].elem \in {"sp", "pic"}
                                 /\ shapes[k].descr # ""}}

\* the field keys of the placeholders a slide receives from its layout: the
\* date, footer and slide number placeholders stay on the layout
InstantiatedKeys(layout) ==
    LET Received(shape) == shape.ph_type \notin {"dt", "ftr", "sldNum"}
    IN  PlaceholderKeys(SelectSeq(layout.shapes, Received))

\* the slides the loop has completed, and the RenderMap entry of one
Rendered == IF r_pc = "idle" THEN {} ELSE 1..r_done
EntryFor(i) ==
    render_map[CHOOSE k \in 1..Len(render_map) :
                   render_map[k].slide_id = r_deck.slides[i].slide_id]

Requested(i) == {r_deck.slides[i].fields[f].key : f \in FieldsOf(r_deck.slides[i])}

StrictlySorted(keys) == \A j \in 1..(Len(keys) - 1) : StrLess(keys[j], keys[j + 1])

Range(keys) == {keys[j] : j \in 1..Len(keys)}

\* C15 as stated: every key present on a placeholder of the layout appears
\* in field_keys, requested or not
C15_LayoutKeysAppear ==
    \A i \in Rendered :
        /\ StrictlySorted(EntryFor(i).field_keys)
        /\ Range(EntryFor(i).field_keys)
              = PlaceholderKeys(LayoutOf(r_deck.slides[i]).shapes)

\* C15: the field_keys of a rendered slide's entry is the sorted,
\* duplicate-free set of the field keys of the placeholders the slide received
\* from its layout, whatever its fields map asks for: a requested key that is
\* on none of them never appears and raises no error, a key on one of them
\* appears though not requested; the keys of the layout's date, footer and
\* slide number placeholders, which the slide does not receive, do not appear.
C15_FieldKeys ==
    \A i \in Rendered :
        LET keys == EntryFor(i).field_keys
            on_slide == InstantiatedKeys(LayoutOf(r_deck.slides[i]))
        IN  /\ StrictlySorted(keys)
            /\ Range(keys) = on_slide
            /\ (Requested(i) \ on_slide) \cap Range(keys) = {}
            /\ on_slide \ Requested(i) \subseteq Range(keys)

\* a slide that asked for ph_missing and one that did not ask for ph_pic
\* were rendered
C15_Witness ==
    \E i, j \in Rendered :
        /\ "ph_missing" \in Requested(i)
        /\ EntryFor(i).field_keys = <<"ph_body", "ph_title">>
        /\ "ph_pic" \notin Requested(j)
        /\ EntryFor(j).field_keys = <<"ph_pic", "ph_title">>

\* the file an asset_ref stands for under the icon index and the search
\* order (the path itself, project root, project root/assets), None if none
AssetFile(asset_ref) ==
    LET id == asset_ref.asset_id
    IN  IF asset_ref.asset_type = "icon"
        THEN IF id \in DOMAIN icon_index /\ ("icons/png/" \o icon_index[id]) \in fs_files
             THEN "icons/png/" \o icon_index[id] ELSE None
        ELSE IF Ch(id, 1) = "/" THEN (IF id \in fs_files THEN id ELSE None)
        ELSE IF ("root/" \o id) \in fs_files THEN "root/" \o id
        ELSE IF ("root/assets/" \o id) \in fs_files THEN "root/assets/" \o id
        ELSE None

\* an asset_ref of slide i that cannot be honoured
BadRef(i, asset_ref) ==
    \/ asset_ref.target_field_key = None
    \/ asset_ref.target_field_key \notin InstantiatedKeys(LayoutOf(r_deck.slides[i]))
    \/ AssetFile(asset_ref) = None

\* the slides of the deck whose layout can be instantiated
Instantiable ==
    {i \in 1..Len(r_deck.slides) :
        /\ Resolves(catalog, r_deck.slides[i].layout_id)
        /\ InTemplate(catalog[r_deck.slides[i].layout_id].master_index,
                      catalog[r_deck.slides[i].layout_id].layout_index)}

\* the pictures of a slide of the document that show file at the placeholder
\* of key target: the placeholder itself, filled, or a picture laid over it
PicturesAt(slide, target, file) ==
    {j \in 1..Len(slide.shapes) :
        /\ slide.shapes[j].picture = file
        /\ \/ slide.shapes[j].descr = target
           \/ /\ ~slide.shapes[j].is_placeholder
              /\ \E k \in 1..Len(slide.shapes) :
                    /\ slide.shapes[k].descr = target
                    /\ slide.shapes[k].idx = slide.shapes[j].idx}

AllPictures(slide) == {j \in 1..Len(slide.shapes) : slide.shapes[j].picture # None}

\* C16: an asset_ref whose target_field_key is missing or names no
\* placeholder of its slide, or whose asset cannot be resolved, makes render
\* raise and save nothing; after a successful render every asset_ref of
\* every slide has its image at its target placeholder.
C16_AssetsNeverDropped ==
    RenderEnded =>
        /\ (\E i \in Instantiable :
               \E k \in 1..Len(r_deck.slides[i].asset_refs) :
                   BadRef(i, r_deck.slides[i].asset_refs[k]))
              => (r_pc = "raised" /\ output_file = NoFile /\ saves = 0)
        /\ r_pc = "returned" =>
              \A i \in 1..Len(r_deck.slides) :
                  LET refs == r_deck.slides[i].asset_refs
                      slide == output_file.slides[i]
                  IN  /\ \A k \in 1..Len(refs) :
                            PicturesAt(slide, refs[k].target_field_key,
                                       AssetFile(refs[k])) # {}
                      /\ Cardinality(AllPictures(slide)) = Len(refs)

\* a slide with two asset_refs on one placeholder and a slide whose image
\* went over its title were rendered and saved
C16_Witness ==
    /\ r_pc = "returned"
    /\ \E i, j \in 1..Len(r_deck.slides) :
          /\ Len(r_deck.slides[i].asset_refs) = 2
          /\ Cardinality(AllPictures(output_file.slides[i])) = 2
          /\ Len(r_deck.slides[j].asset_refs) = 1
          /\ r_deck.slides[j].asset_refs[1].target_field_key = "ph_title"
          /\ Cardinality(AllPictures(output_file.slides[j])) = 1

\* the placeholders slide i received without a field key in their metadata
\* although the layout records one for their idx: (position, recorded key)
HealedAt(i) ==
    LET layout == LayoutOf(r_deck.slides[i])
        cloned == ClonedShapes(layout)
    IN  {j \in 1..Len(cloned) :
            /\ _read_alt_text(cloned[j]) = None
            /\ FieldKeyByIdx(layout, cloned[j].idx) # None}

\* a placeholder of the document that is still the element the slide received
\* (insert_picture puts a picture element of its own in the placeholder's place)
StillPlaceholder(shape) == shape.is_placeholder /\ shape.picture = None

TwinSlide == DeckSlide("r1", "L2", <<TitleField>>, NoNotes, <<>>)

AnySlides ==
    {s \in RenderSlides : s.slide_id \in {"r1", "r2", "r3", "r8"}} \cup {TwinSlide}

AnyDecks == SlideSeqs(AnySlides, MaxRenderSlides)

RenderAnyInit ==
    /\ catalog = RenderCatalog
    /\ \E q \in AnyDecks :
          /\ deck_in = LoadDeck(q).deck
          /\ heap = LoadDeck(q).heap
    /\ runs = <<>>
    /\ deck_b = None
    /\ runs_b = <<>>
    /\ t_text = "" /\ t_max = 0 /\ t_res = None
    /\ template \in Templates
    /\ icon_index = RenderIcons
    /\ fs_files = RenderFiles
    /\ RenderIdle
    /\ DriftIdle
    /\ CliIdle

RenderAnySpec == RenderAnyInit /\ [][RenderNext]_vars

\* C14: after a successful render of a deck of n slides the document holds
\* n slides in deck order, the RenderMap holds n entries, one per deck
\* slide, and the entry of the slide at 0-based position i has slide_index i.
C14_MapMatchesDocument ==
    r_pc = "returned" =>
        LET n == Len(r_deck.slides)
            doc == output_file.slides
            entries == r_result.entries
        IN  /\ Len(doc) = n
            /\ \A i \in 1..n : doc[i].slide_id = r_deck.slides[i].slide_id
            /\ Len(entries) = n
            /\ \A i \in 1..n :
                  \E k \in 1..Len(entries) :
                      /\ entries[k].slide_id = r_deck.slides[i].slide_id
                      /\ entries[k].slide_index = i - 1

(***************************************************************************)
(* IndepSpec: two decks that share a slide, each handed to                 *)
(* validate_and_remediate with the same catalog.                           *)
(***************************************************************************)
\* the entries of "L1" whose every budget is in force
IndepEntries ==
    {e \in LayoutEntries :
        /\ "constraints" \in DOMAIN e
        /\ "max_title_chars" \in DOMAIN e.constraints
        /\ e.constraints.max_title_chars = 7
        /\ e.constraints.max_words_per_bullet = 2
        /\ e.constraints.max_bullets = 2
        /\ e.constraints.max_total_body_chars > 0}

IndepInit ==
    /\ \E entry \in IndepEntries : catalog = (KnownLayout :> entry)
    /\ \E b \in BodyValues : \E s \in MainSlides(b) :
          \E qa \in InputDecks(s) : \E qb \in InputDecks(s) \ {qa} :
              LET a == LoadDeck(qa)
                  bb == LoadDeckOn(qb, a.heap)
              IN  /\ Len(qa) <= Len(qb)
                  /\ deck_in = a.deck
                  /\ deck_b = bb.deck
                  /\ heap = bb.heap
    /\ runs = <<>>
    /\ runs_b = <<>>
    /\ t_text = "" /\ t_max = 0 /\ t_res = None
    /\ NoTemplate
    /\ RenderIdle
    /\ DriftIdle
    /\ CliIdle

PreflightFirst ==
    /\ runs = <<>>
    /\ \E result \in {validate_and_remediate(deck_in, catalog, heap)} :
          /\ runs' = <<[deck |-> result.deck, report |-> result.report]>>
          /\ heap' = result.heap
    /\ UNCHANGED <<catalog, deck_in, deck_b, runs_b>>
    /\ UNCHANGED <<txVars, envVars, rnVars, drVars, cliVars>>

PreflightOther ==
    /\ runs # <<>>
    /\ runs_b = <<>>
    /\ \E result \in {validate_and_remediate(deck_b, catalog, heap)} :
          /\ runs_b' = <<[deck |-> result.deck, report |-> result.report]>>
          /\ heap' = result.heap
    /\ UNCHANGED <<catalog, deck_in, deck_b, runs>>
    /\ UNCHANGED <<txVars, envVars, rnVars, drVars, cliVars>>

IndepNext == PreflightFirst \/ PreflightOther

IndepSpec == IndepInit /\ [][IndepNext]_vars

ViolationsFor(report, slide_id) ==
    LET OfSlide(v) == v.slide_id = slide_id
    IN  SelectSeq(report.violations, OfSlide)

\* the pairs of positions at which the two decks hold equal slides
SharedSlides ==
    {p \in (1..Len(deck_in.slides)) \X (1..Len(deck_b.slides)) :
        DerefSlide(deck_in.slides[p[1]], heap) = DerefSlide(deck_b.slides[p[2]], heap)}

\* C9: a slide that two decks share gets the same violations and the same
\* remediated slide in both calls, whatever the other slides are.
C9_SlideIndependence ==
    (runs # <<>> /\ runs_b # <<>>) =>
        \A p \in SharedSlides :
            /\ DerefSlide(runs[1].deck.slides[p[1]], heap)
                  = DerefSlide(runs_b[1].deck.slides[p[2]], heap)
            /\ ViolationsFor(runs[1].report, deck_in.slides[p[1]].slide_id)
                  = ViolationsFor(runs_b[1].report, deck_b.slides[p[2]].slide_id)

\* both calls were made, the shared slide stands at different positions next
\* to different slides and was remediated
C9_Witness ==
    /\ runs # <<>> /\ runs_b # <<>>
    /\ \E p \in SharedSlides :
          /\ p[1] # p[2]
          /\ Len(deck_in.slides) = 2 /\ Len(deck_b.slides) = 2
          /\ deck_in.slides[p[2]].slide_id # deck_b.slides[p[1]].slide_id
          /\ DerefSlide(runs[1].deck.slides[p[1]], heap)
                # DerefSlide(deck_in.slides[p[1]], heap)

(***************************************************************************)
(* DriftSpec: validate_template_catalog on a catalog of up to              *)
(* MaxCatalogEntries entries against the template.  The entries are two    *)
(* faithful ones and copies of the first with one key changed.             *)
(***************************************************************************)
FieldSchema(field_key, required) == [field_key |-> field_key, required |-> required]

DriftEntry(layout_id, master_index, layout_index, template_layout_name, field_list) ==
    [layout_id |-> layout_id, master_index |-> master_index,
     layout_index |-> layout_index, template_layout_name |-> template_layout_name,
     fields |-> field_list]

FaithfulFields ==
    <<FieldSchema("ph_title", TRUE), FieldSchema("ph_body", TRUE),
      FieldSchema("ph_subtitle", FALSE)>>

FaithfulEntry ==
    DriftEntry("L1", JInt(0), JInt(0), "Title and Content", FaithfulFields)

DriftEntries ==
    {FaithfulEntry,
     DriftEntry("L2", JInt(0), JInt(1), "Picture", <<FieldSchema("ph_pic", TRUE)>>)}
    \cup {[FaithfulEntry EXCEPT !.layout_id = x] : x \in {None, ""}}
    \cup {[FaithfulEntry EXCEPT !.master_index = x] :
            x \in {JInt(1), JInt(-1), JStr("0"), JNull, JBool(FALSE)}}
    \cup {[FaithfulEntry EXCEPT !.layout_index = x] :
            x \in {JInt(2), JInt(-1), JStr("0"), JNull, JBool(TRUE)}}
    \cup {[FaithfulEntry EXCEPT !.template_layout_name = x] :
            x \in {"Title Slide", "", None}}
    \cup {[FaithfulEntry EXCEPT !.fields = x] :
            x \in {<<FieldSchema("ph_subtitle", TRUE)>>,
                   <<FieldSchema("logo", TRUE)>>,
                   <<FieldSchema(None, TRUE)>>,
                   <<FieldSchema("ph_title", TRUE), FieldSchema("ph_date", TRUE)>>,
                   <<>>}}

DriftCatalogs == SlideSeqs(DriftEntries, MaxCatalogEntries)

DriftInit ==
    /\ template \in Templates
    /\ icon_index = <<>>
    /\ fs_files = {}
    /\ layouts \in DriftCatalogs
    /\ d_errors = NotRun
    /\ catalog = <<>>
    /\ heap = <<>>
    /\ deck_in = None
    /\ runs = <<>>
    /\ deck_b = None
    /\ runs_b = <<>>
    /\ t_text = "" /\ t_max = 0 /\ t_res = None
    /\ RenderIdle
    /\ CliIdle

DriftNext == DriftValidate

DriftSpec == DriftInit /\ [][DriftNext]_vars

DriftRan == d_errors.kind = "errors"

HasLayoutId(entry) == entry.layout_id \notin {None, ""}

\* the template layout at JSON integer coordinates, <<>> when there is none
IntegerCoordinates(entry) ==
    /\ entry.master_index.t = "int"
    /\ entry.layout_index.t = "int"

LayoutAt(m, l) ==
    IF /\ m \in 0..(Len(template.masters) - 1)
       /\ l \in 0..(Len(template.masters[m + 1]) - 1)
    THEN <<template.masters[m + 1][l + 1]>>
    ELSE <<>>

ResolvedLayout(entry) ==
    IF IntegerCoordinates(entry)
    THEN LayoutAt(entry.master_index.n, entry.layout_index.n)
    ELSE <<>>

FaithfulToTemplate(j) ==
    LET entry == layouts[j]
        at == ResolvedLayout(entry)
    IN  /\ HasLayoutId(entry)
        /\ \A i \in 1..Len(layouts) : layouts[i].layout_id = entry.layout_id => i = j
        /\ at # <<>>
        /\ entry.template_layout_name = at[1].name
        /\ \A k \in 1..Len(entry.fields) :
              entry.fields[k].required =>
                  entry.fields[k].field_key \in PlaceholderKeys(at[1].shapes)

\* C12: validate_template_catalog returns the empty list exactly when every
\* catalog entry has a layout_id no other entry has, coordinates that resolve
\* inside the template, a recorded template_layout_name equal to the template
\* layout's name, and every required field among that layout's placeholders.
C12_DriftComplete ==
    DriftRan =>
        (d_errors.list = <<>> <=> \A j \in 1..Len(layouts) : FaithfulToTemplate(j))

MissingReported(entry) ==
    \E k \in 1..Len(d_errors.list) :
        /\ Contains(d_errors.list[k], entry.layout_id)
        /\ Contains(d_errors.list[k], "missing in template")

\* C13 as stated: every entry that has a layout_id and whose coordinates are
\* not integers inside the template gets an error holding its layout_id and
\* "missing in template".
C13_MissingLayoutReported ==
    DriftRan =>
        \A j \in 1..Len(layouts) :
            (HasLayoutId(layouts[j]) /\ ResolvedLayout(layouts[j]) = <<>>)
                => MissingReported(layouts[j])

\* the integer Python indexes with: JSON true and false are instances of int
AsIndex(value) ==
    CASE value.t = "int" -> <<value.n>>
      [] value.t = "bool" -> <<IF value.b THEN 1 ELSE 0>>
      [] OTHER -> <<>>

IndexedLayout(entry) ==
    LET m == AsIndex(entry.master_index)
        l == AsIndex(entry.layout_index)
    IN  IF m = <<>> THEN <<>>
        ELSE IF m[1] \notin 0..(Len(template.masters) - 1) THEN <<>>
        ELSE IF l = <<>> THEN <<>>
        ELSE LayoutAt(m[1], l[1])

FirstOfItsId(j) ==
    /\ HasLayoutId(layouts[j])
    /\ \A i \in 1..(j - 1) : layouts[i].layout_id # layouts[j].layout_id

\* C13 (amended): every entry that is the first of its layout_id and whose
\* coordinates do not index a layout of the template (too large, negative, a
\* string or null; true and false index as 1 and 0) gets an error holding its
\* layout_id and "missing in template".
C13_FirstMissingReported ==
    DriftRan =>
        \A j \in 1..Len(layouts) :
            (FirstOfItsId(j) /\ IndexedLayout(layouts[j]) = <<>>)
                => MissingReported(layouts[j])

C13_Witness ==
    /\ DriftRan
    /\ Len(layouts) = 2
    /\ FirstOfItsId(1) /\ FirstOfItsId(2)
    /\ layouts[1].layout_index = JInt(2)
    /\ IndexedLayout(layouts[2]) # <<>>
    /\ MissingReported(layouts[1])
    /\ Len(d_errors.list) = 1

\* what entry j adds to the errors whatever stands before it: the errors of
\* the catalog made of it alone, or one "Duplicate layout_id" error naming its
\* layout_id when an earlier entry has that layout_id
OwnErrors(j) ==
    IF HasLayoutId(layouts[j]) /\ ~FirstOfItsId(j)
    THEN <<"Duplicate layout_id in catalog: " \o layouts[j].layout_id>>
    ELSE validate_template_catalog(template, <<layouts[j]>>)

RECURSIVE OwnErrorsFrom(_)
OwnErrorsFrom(j) ==
    IF j > Len(layouts) THEN <<>> ELSE OwnErrors(j) \o OwnErrorsFrom(j + 1)

\* C26: validate_template_catalog returns a list of error strings for every
\* catalog, whatever defects its entries have and in whatever order; every
\* entry is checked whatever the entries before it hold (the list is, entry
\* by entry, what each entry yields on its own), and every repetition of a
\* layout_id already seen yields a "Duplicate layout_id" error naming it.
C26_DriftReports ==
    DriftRan => d_errors.list = OwnErrorsFrom(1)

\* the first entry does not resolve and the second, which repeats its
\* layout_id, is reported as a duplicate after it
C26_Witness ==
    /\ DriftRan
    /\ Len(layouts) = 2
    /\ layouts[1].master_index = JStr("0")
    /\ layouts[2] = FaithfulEntry
    /\ Len(d_errors.list) = 2
    /\ MissingReported(layouts[1])
    /\ d_errors.list[2] = "Duplicate layout_id in catalog: L1"

(***************************************************************************)
(* CLI (cli.py): cmd_validate, cmd_render and cmd_smoke, one action per    *)
(* stage call.  c_trace records, in order, the calls and returns of the    *)
(* stages, the files written into the run directory and the events         *)
(* appended to run_log.jsonl.  The render call runs through the actions    *)
(* of Renderer.render.                                                     *)
(***************************************************************************)
\* {entry["layout_id"]: entry for entry in catalog["layouts"]}: the last entry
\* of a layout_id wins; the coordinates are the integers the JSON holds
LastEntryOf(entries, layout_id) ==
    entries[CHOOSE i \in 1..Len(entries) :
                /\ entries[i].layout_id = layout_id
                /\ \A j \in (i + 1)..Len(entries) : entries[j].layout_id # layout_id]

_load_layout_catalog(entries) ==
    [layout_id \in {entries[i].layout_id : i \in 1..Len(entries)} |->
        LET entry == LastEntryOf(entries, layout_id)
        IN  [entry EXCEPT !.master_index = IntOf(@), !.layout_index = IntOf(@)]]

Commands == {"validate", "render", "smoke"}

\* main: the parser dispatches to the command, which loads the configuration
CliStart(cmd) ==
    /\ c_pc = "idle"
    /\ c_cmd' = cmd
    /\ c_pc' = "drift"
    /\ UNCHANGED <<c_trace, c_rc, deckir_exists>>
    /\ UNCHANGED <<pfVars, txVars, envVars, rnVars, drVars>>

\* the command goes on whatever the drift check returned
CmdDrift_no_gate ==
    /\ c_pc = "drift"
    /\ LET errors == validate_template_catalog(template, layouts)
       IN  /\ d_errors' = Errors(errors)
           /\ c_trace' = c_trace \o <<"call:drift", "return:drift">>
           /\ IF c_cmd = "validate"
              THEN /\ c_rc' = <<IF errors # <<>> THEN 1 ELSE 0>>
                   /\ c_pc' = "done"
              ELSE /\ c_pc' = "load"
                   /\ UNCHANGED c_rc
    /\ UNCHANGED <<layouts, c_cmd, deckir_exists>>
    /\ UNCHANGED <<pfVars, txVars, envVars, rnVars>>

\* the drift check every command starts with, and the return on its errors
CmdDrift ==
    /\ c_pc = "drift"
    /\ LET errors == validate_template_catalog(template, layouts)
       IN  /\ d_errors' = Errors(errors)
           /\ c_trace' = c_trace \o <<"call:drift", "return:drift">>
           /\ IF errors # <<>>
              THEN /\ c_rc' = <<1>>
                   /\ c_pc' = "done"
              ELSE IF c_cmd = "validate"
              THEN /\ c_rc' = <<0>>
                   /\ c_pc' = "done"
              ELSE /\ c_pc' = "load"
                   /\ UNCHANGED c_rc
    /\ UNCHANGED <<layouts, c_cmd, deckir_exists>>
    /\ UNCHANGED <<pfVars, txVars, envVars, rnVars>>

\* from the test for the DeckIR file to the DECKIR_LOADED event
CmdLoadDeck ==
    /\ c_pc = "load"
    /\ IF ~deckir_exists
       THEN /\ c_rc' = <<1>>
            /\ c_pc' = "done"
            /\ UNCHANGED c_trace
       ELSE /\ c_trace' = c_trace
                          \o (IF c_cmd = "smoke" THEN <<"log:SMOKE_START">> ELSE <<>>)
                          \o <<"write:deckir_v1.json", "log:DECKIR_LOADED">>
            /\ c_pc' = IF c_cmd = "smoke" THEN "preflight" ELSE "render"
            /\ UNCHANGED c_rc
    /\ UNCHANGED <<c_cmd, deckir_exists>>
    /\ UNCHANGED <<pfVars, txVars, envVars, rnVars, drVars>>

\* cmd_smoke returning 1 after VALIDATE_DONE when the report holds a BLOCKING
\* violation
CmdPreflight_blocking_gate ==
    /\ c_pc = "preflight"
    /\ \E result \in {validate_and_remediate(deck_in, catalog, heap)} :
          /\ runs' = Append(runs, [deck |-> result.deck, report |-> result.report])
          /\ heap' = result.heap
          /\ IF \E j \in 1..Len(result.report.violations) :
                    result.report.violations[j].severity = "BLOCKING"
             THEN c_pc' = "done" /\ c_rc' = <<1>>
             ELSE c_pc' = "render" /\ UNCHANGED c_rc
    /\ c_trace' = c_trace \o <<"call:preflight", "return:preflight",
                               "write:validation_report.json",
                               "write:deckir_v1_1.json", "log:VALIDATE_DONE">>
    /\ UNCHANGED <<catalog, deck_in, deck_b, runs_b>>
    /\ UNCHANGED <<c_cmd, deckir_exists>>
    /\ UNCHANGED <<txVars, envVars, rnVars, drVars>>

\* cmd_smoke: validate_and_remediate and the two files written from its result
CmdPreflight ==
    /\ c_pc = "preflight"
    /\ \E result \in {validate_and_remediate(deck_in, catalog, heap)} :
          /\ runs' = Append(runs, [deck |-> result.deck, report |-> result.report])
          /\ heap' = result.heap
    /\ c_trace' = c_trace \o <<"call:preflight", "return:preflight",
                               "write:validation_report.json",
                               "write:deckir_v1_1.json", "log:VALIDATE_DONE">>
    /\ c_pc' = "render"
    /\ UNCHANGED <<catalog, deck_in, deck_b, runs_b>>
    /\ UNCHANGED <<c_cmd, c_rc, deckir_exists>>
    /\ UNCHANGED <<txVars, envVars, rnVars, drVars>>

\* cmd_smoke hands the renderer the deck it loaded
CmdRenderCall_input_deck ==
    /\ c_pc = "render"
    /\ r_pc = "idle"
    /\ r_pc' = "slides"
    /\ r_deck' = deck_in
    /\ r_done' = 0
    /\ prs' = <<>>
    /\ render_map' = <<>>
    /\ c_trace' = Append(c_trace, "call:render")
    /\ c_pc' = "rendering"
    /\ UNCHANGED <<output_file, saves, r_error, r_result>>
    /\ UNCHANGED <<c_cmd, c_rc, deckir_exists>>
    /\ UNCHANGED <<pfVars, txVars, envVars, drVars>>

\* Renderer(...) and renderer.render(deck, output_path), up to its loop:
\* cmd_render passes the loaded deck, cmd_smoke the deck preflight returned
CmdRenderCall ==
    /\ c_pc = "render"
    /\ r_pc = "idle"
    /\ r_pc' = "slides"
    /\ r_deck' = IF c_cmd = "smoke" THEN runs[1].deck ELSE deck_in
    /\ r_done' = 0
    /\ prs' = <<>>
    /\ render_map' = <<>>
    /\ c_trace' = Append(c_trace, "call:render")
    /\ c_pc' = "rendering"
    /\ UNCHANGED <<output_file, saves, r_error, r_result>>
    /\ UNCHANGED <<c_cmd, c_rc, deckir_exists>>
    /\ UNCHANGED <<pfVars, txVars, envVars, drVars>>

\* after render returned: render_map.json, the closing events, return 0
CmdRenderReturned ==
    /\ c_pc = "rendering"
    /\ r_pc = "returned"
    /\ c_trace' = c_trace
                  \o <<"return:render", "write:render_map.json", "log:RENDER_DONE">>
                  \o (IF c_cmd = "smoke" THEN <<"log:SMOKE_DONE">> ELSE <<>>)
    /\ c_rc' = <<0>>
    /\ c_pc' = "done"
    /\ UNCHANGED <<c_cmd, deckir_exists>>
    /\ UNCHANGED <<pfVars, txVars, envVars, rnVars, drVars>>

\* the exception render raised leaves the command: neither handles it
CmdRenderRaised ==
    /\ c_pc = "rendering"
    /\ r_pc = "raised"
    /\ c_pc' = "raised"
    /\ UNCHANGED <<c_cmd, c_trace, c_rc, deckir_exists>>
    /\ UNCHANGED <<pfVars, txVars, envVars, rnVars, drVars>>

(***************************************************************************)
(* CliSpec: one command on a catalog file, a template and a DeckIR file.   *)
(***************************************************************************)
CliEntry(layout_id, layout_index, template_layout_name, field_list, constraints) ==
    [layout_id |-> layout_id, master_index |-> JInt(0),
     layout_index |-> JInt(layout_index),
     template_layout_name |-> template_layout_name, fields |-> field_list,
     constraints |-> constraints]

TightEntry ==
    CliEntry("L1", 0, "Title and Content", <<FieldSchema("ph_title", TRUE)>>,
             [max_title_chars |-> 5, max_bullets |-> 1])

PictureEntry ==
    CliEntry("L2", 1, "Picture", <<FieldSchema("ph_pic", FALSE)>>, <<>>)

\* a faithful catalog, one without "L2", and three the template has drifted
\* from: a layout that is gone, a repeated layout_id, a renamed layout
CliCatalogs ==
    {<<TightEntry, PictureEntry>>,
     <<TightEntry>>,
     <<TightEntry, CliEntry("L2", 2, "Picture", <<>>, <<>>)>>,
     <<TightEntry, PictureEntry, TightEntry>>,
     <<CliEntry("L1", 0, "Title Slide", <<>>, <<>>), PictureEntry>>}

CliSlides ==
    {DeckSlide("s1", "L1",
               <<Field("ph_title", Str("aaa aaaa")),
                 Field("ph_body", InlineList(<<"a", "b b b">>))>>,
               TextNotes("n"), <<>>),
     DeckSlide("s2", "L2", <<TitleField>>, NoNotes, <<AssetRef("icon", "i1", "ph_pic")>>),
     DeckSlide("s3", "L2", <<TitleField>>, NoNotes, <<AssetRef("icon", "nope", "ph_pic")>>),
     DeckSlide("s4", UnknownLayout, <<TitleField>>, NoNotes, <<>>)}

CliDecks == {q \in SlideSeqs(CliSlides, MaxCliSlides) : DistinctIds(q)}

CliInit ==
    /\ layouts \in CliCatalogs
    /\ catalog = _load_layout_catalog(layouts)
    /\ \E q \in CliDecks :
          /\ deck_in = LoadDeck(q).deck
          /\ heap = LoadDeck(q).heap
    /\ deckir_exists \in BOOLEAN
    /\ runs = <<>>
    /\ deck_b = None
    /\ runs_b = <<>>
    /\ t_text = "" /\ t_max = 0 /\ t_res = None
    /\ template \in Templates
    /\ icon_index = RenderIcons
    /\ fs_files = RenderFiles
    /\ RenderIdle
    /\ d_errors = NotRun
    /\ c_cmd = "none"
    /\ c_pc = "idle"
    /\ c_trace = <<>>
    /\ c_rc = <<>>

CliNext ==
    \/ \E cmd \in Commands : CliStart(cmd)
    \/ CmdDrift
    \/ CmdLoadDeck
    \/ CmdPreflight
    \/ CmdRenderCall
    \/ RenderSlideDone
    \/ RenderSlideRaise
    \/ RenderSave
    \/ CmdRenderReturned
    \/ CmdRenderRaised

CliSpec == CliInit /\ [][CliNext]_vars

TraceHas(event) == \E i \in 1..Len(c_trace) : c_trace[i] = event

IsStageEvent(event) == StartsWith(event, "call:") \/ StartsWith(event, "return:")
IsWrite(event) == StartsWith(event, "write:")
IsLog(event) == StartsWith(event, "log:")

IsPrefix(s, t) == Len(s) <= Len(t) /\ SubSeq(t, 1, Len(s)) = s

DriftFailed == d_errors.kind = "errors" /\ d_errors.list # <<>>
DriftPassed == d_errors = Errors(<<>>)

PreflightReached == runs # <<>> \/ TraceHas("call:preflight")
RenderReached == r_pc # "idle" \/ TraceHas("call:render")
NothingWritten ==
    /\ output_file = NoFile
    /\ \A i \in 1..Len(c_trace) : ~IsWrite(c_trace[i]) /\ ~IsLog(c_trace[i])

\* C11: in the commands render and smoke the drift validator runs before
\* anything else; when it returns errors the command returns 1 with preflight
\* and the renderer never invoked and nothing written into the run directory;
\* preflight and render are reached only after a drift check without errors.
C11_DriftGate ==
    c_cmd \in {"render", "smoke"} =>
        /\ c_trace # <<>> => c_trace[1] = "call:drift"
        /\ (c_pc \notin {"idle", "drift"}) => d_errors.kind = "errors"
        /\ DriftFailed =>
              /\ c_rc = <<1>>
              /\ ~PreflightReached
              /\ ~RenderReached
              /\ NothingWritten
        /\ (PreflightReached \/ RenderReached) => DriftPassed

C11_Witness ==
    /\ c_cmd = "smoke"
    /\ DriftFailed
    /\ c_rc = <<1>>
    /\ deckir_exists
    /\ Len(deck_in.slides) = 2

RenderAfterCleanDrift ==
    /\ c_cmd = "render"
    /\ DriftPassed
    /\ r_pc = "returned"

SmokeStages ==
    <<"call:drift", "return:drift", "call:preflight", "return:preflight",
      "call:render", "return:render">>

SmokeLog ==
    <<"log:SMOKE_START", "log:DECKIR_LOADED", "log:VALIDATE_DONE", "log:RENDER_DONE",
      "log:SMOKE_DONE">>

SmokeArtifacts ==
    {"write:deckir_v1.json", "write:validation_report.json", "write:deckir_v1_1.json",
     "write:render_map.json"}

\* C18: in the smoke command the stages run in the order drift validator,
\* preflight, renderer, each begun after the one before returned; the
\* renderer's deck is the one preflight returned, a different object from the
\* input deck; the command returns 0 only with input DeckIR, validation report,
\* remediated DeckIR, document and RenderMap written; and the log events come in
\* the order SMOKE_START, DECKIR_LOADED, VALIDATE_DONE, RENDER_DONE, SMOKE_DONE.
C18_SmokeOrder ==
    c_cmd = "smoke" =>
        /\ IsPrefix(SelectSeq(c_trace, IsStageEvent), SmokeStages)
        /\ IsPrefix(SelectSeq(c_trace, IsLog), SmokeLog)
        /\ r_pc # "idle" =>
              /\ Len(runs) = 1
              /\ r_deck = runs[1].deck
              /\ r_deck.oid # deck_in.oid
        /\ c_rc = <<0>> =>
              /\ \A a \in SmokeArtifacts : TraceHas(a)
              /\ output_file = Document(prs)
              /\ r_result = RenderMap(render_map)
              /\ SelectSeq(c_trace, IsLog) = SmokeLog
              /\ SelectSeq(c_trace, IsStageEvent) = SmokeStages

C18_Witness ==
    /\ c_cmd = "smoke"
    /\ c_rc = <<0>>
    /\ Len(deck_in.slides) = 2
    /\ runs[1].report.violations # <<>>
    /\ DerefSlides(runs[1].deck.slides, heap) # DerefSlides(deck_in.slides, heap)

\* the findings of the report of the smoke command's preflight
SmokeFindings == runs[1].report.violations

UnknownLayoutFinding(v) ==
    /\ v.severity = "BLOCKING"
    /\ v.field_key = None
    /\ StartsWith(v.recommended_action, "Unknown layout_id: ")

FindingsOn(slide_id) ==
    {j \in 1..Len(SmokeFindings) : SmokeFindings[j].slide_id = slide_id}

\* the render call stopped at a slide that preflight reported for its layout
AbortedOnUnknownLayout ==
    /\ r_pc = "raised"
    /\ StartsWith(r_error, "Unknown layout_id: ")
    /\ \E j \in FindingsOn(r_deck.slides[r_done + 1].slide_id) :
          UnknownLayoutFinding(SmokeFindings[j])

\* the render call stopped at an asset reference of a slide whose layout
\* preflight did not object to
AbortedOnAsset ==
    /\ r_pc = "raised"
    /\ ~StartsWith(r_error, "Unknown layout_id: ")
    /\ r_deck.slides[r_done + 1].asset_refs # <<>>
    /\ \A j \in FindingsOn(r_deck.slides[r_done + 1].slide_id) :
          ~UnknownLayoutFinding(SmokeFindings[j])

\* C30: in the smoke command, once preflight has returned, the command goes
\* on to call the renderer on the deck preflight returned and never returns
\* on account of the report, whatever violations it holds; a render that
\* produces no document was aborted by the renderer, at a slide reported for
\* its unknown layout_id or at an asset reference, and a deck with a slide so
\* reported never yields a document.
C30_NoSeverityGate ==
    (c_cmd = "smoke" /\ runs # <<>>) =>
        /\ c_pc \in {"render", "rendering", "done", "raised"}
        /\ c_pc = "render" => r_pc = "idle"
        /\ c_rc # <<1>>
        /\ r_pc # "idle" => r_deck = runs[1].deck
        /\ r_pc = "raised" => (AbortedOnUnknownLayout \/ AbortedOnAsset)
        /\ r_pc = "returned" =>
              /\ output_file = Document(prs)
              /\ \A j \in 1..Len(SmokeFindings) : ~UnknownLayoutFinding(SmokeFindings[j])
        /\ r_pc # "returned" => output_file = NoFile

\* a smoke run whose report holds a BLOCKING TOO_MANY_BULLETS violation returned 0
\* with the document written
C30_Witness ==
    /\ c_cmd = "smoke"
    /\ c_rc = <<0>>
    /\ output_file = Document(prs)
    /\ Cardinality({j \in 1..Len(SmokeFindings) :
                       SmokeFindings[j].severity = "BLOCKING"}) >= 1
    /\ \E j \in 1..Len(SmokeFindings) : SmokeFindings[j].violation_type = "TOO_MANY_BULLETS"

\* a smoke run whose renderer stopped at the slide reported for its layout
C30_UnknownLayoutAborts ==
    /\ c_cmd = "smoke"
    /\ c_pc = "raised"
    /\ AbortedOnUnknownLayout
    /\ r_done = 1

====
